---- MODULE Spec2Model ----
(***************************************************************************)
(* Buddy allocator of src/malloc_3.cpp (smalloc / scalloc / sfree /        *)
(* srealloc over a 32 * 128 KiB pool obtained with sbrk, plus an mmap list *)
(* for large blocks).                                                      *)
(*                                                                         *)
(* Addresses and sizes are byte values.  The heap is a partial map from    *)
(* the address of every header that was ever stamped to the header stored  *)
(* there; headers of blocks that were merged away stay in the map with the *)
(* bytes they had, exactly as they stay in memory.                         *)
(***************************************************************************)
EXTENDS Integers, Sequences, FiniteSets, TLC

\* ------------------------------------------------------------------ constants
MAX_SIZE == 100000000
MAX_ORDER == 10
BLOCK_SIZE == 128 * 1024
MIN_BLOCK == 128
INITIAL_BLOCKS == 32
\* sizeof(MallocMetadata) on LP64: size_t, bool (+7 padding), two pointers
S == 32
PAGE_SIZE == 4096
NULL == 0
\* (void*)-1, the failure value of sbrk and mmap
FAILED == -1

\* ------------------------------------------------------------------ bounds
\* pooled pointers a caller holds at the same time
MaxHeld == 3
\* large (mmap) pointers a caller holds at the same time
MaxLarge == 1
\* large pointers held at the same time in the exhaustion scenario
MaxLargeExhaust == 33
\* calls a caller makes in one run
MaxCalls == 6
\* calls a caller makes in the exhaustion scenario
MaxCallsExhaust == 67
\* calls a caller makes with arguments on and beyond the limits
MaxCallsEdge == 3
\* calls a caller makes once it holds blocks with bytes stored in them
MaxCallsData == 4
\* calls a caller makes with sizes around the largest pooled request
MaxCallsThreshold == 5
\* calls a caller makes in a process whose program break starts anywhere
MaxCallsAlign == 5
\* calls a caller of the list allocator makes
MaxCallsList == 4
\* large blocks held at once, and calls, in a run of large-block callers
MaxLargeList == 3
MaxCallsLarge == 5
\* calls after the pool has been drained to its last block
MaxCallsDrain == 5
\* calls after the setup in a run of the callers whose every possible
\* call is examined
MaxCallsFrame == 2
\* calls of find_order in a run
MaxCallsOrder == 3

\* the program break the process starts with (not aligned to 32 * BLOCK_SIZE)
InitBrks == {4200000}
\* request sizes the callers use: order 0, order 1, and a large one
AllocSizes == {90, 100, 200000}
\* addresses the OS may choose for a mapping
MmapAddrs == {268435456, 402653184}
\* address of the k-th mapping in the exhaustion scenario
ExhaustAddr(k) == 268435456 + k * 262144

\* ------------------------------------------------------------------ helpers
RECURSIVE Xor(_, _)
\* bitwise exclusive or of two non-negative integers (the ^ of the code)
Xor(a, b) ==
    IF a = 0 THEN b
    ELSE IF b = 0 THEN a
    ELSE (((a % 2) + (b % 2)) % 2) + 2 * Xor(a \div 2, b \div 2)

RoundUpPage(n) == ((n + PAGE_SIZE - 1) \div PAGE_SIZE) * PAGE_SIZE

Min(a, b) == IF a < b THEN a ELSE b

\* ------------------------------------------------------------------ size_t
\* A size_t is kept as 8 little-endian bytes where a value can exceed what
\* the engine's own arithmetic keeps below MAX_SIZE + S (the arguments of
\* scalloc and their product).
Byte == 256
W64Len == 8

RECURSIVE ToW64Rec(_, _)
ToW64Rec(n, k) == IF k = 0 THEN <<>> ELSE <<(n % Byte)>> \o ToW64Rec(n \div Byte, k - 1)
ToW64(n) == ToW64Rec(n, W64Len)

RECURSIVE W64High(_, _)
\* TRUE iff some byte of w at index >= k is non-zero
W64High(w, k) == IF k > W64Len THEN FALSE ELSE w[k] # 0 \/ W64High(w, k + 1)

\* value of w when it is below 2^31, else 2^31 - 1 (only used after a
\* comparison has already bounded w)
W64ToInt(w) ==
    IF W64High(w, 5) \/ w[4] >= 128 THEN 2147483647
    ELSE w[1] + Byte * (w[2] + Byte * (w[3] + Byte * w[4]))

RECURSIVE W64GeqRec(_, _, _)
W64GeqRec(a, b, k) ==
    IF k = 0 THEN TRUE
    ELSE IF a[k] > b[k] THEN TRUE
    ELSE IF a[k] < b[k] THEN FALSE
    ELSE W64GeqRec(a, b, k - 1)
\* a >= b on size_t
W64Geq(a, b) == W64GeqRec(a, b, W64Len)

W64IsZero(w) == ~W64High(w, 1)

RECURSIVE ColSum(_, _, _, _)
\* sum of a[i] * b[k + 1 - i] for i in j..k
ColSum(a, b, k, j) ==
    IF j > k THEN 0 ELSE a[j] * b[k + 1 - j] + ColSum(a, b, k, j + 1)

RECURSIVE W64MulRec(_, _, _, _)
W64MulRec(a, b, k, carry) ==
    IF k > W64Len THEN <<>>
    ELSE LET t == ColSum(a, b, k, 1) + carry
         IN <<(t % Byte)>> \o W64MulRec(a, b, k + 1, t \div Byte)
\* a * b on size_t: the low 64 bits of the product
W64Mul(a, b) == W64MulRec(a, b, 1, 0)

\* ------------------------------------------------------------------ headers
\* struct MallocMetadata
Header(size, is_free, next, prev) ==
    [size |-> size, is_free |-> is_free, next |-> next, prev |-> prev]

\* the bytes of memory that was never written: fresh sbrk and mmap pages are
\* zero-filled
ZeroHeader == Header(0, FALSE, NULL, NULL)

\* the header read through a MallocMetadata* with value a
Hdr(m, a) == IF a \in DOMAIN m THEN m[a] ELSE ZeroHeader

\* a stamp that writes the size and leaves is_free as it was
Stamp_KeepsFlag(m, a, size, is_free) ==
    [x \in DOMAIN m \cup {a} |->
        IF x = a THEN [Hdr(m, a) EXCEPT !.size = size]
        ELSE m[x]]

\* memory m after the assignments  a->size = size; a->is_free = is_free;
Stamp(m, a, size, is_free) ==
    [x \in DOMAIN m \cup {a} |->
        IF x = a THEN [Hdr(m, a) EXCEPT !.size = size, !.is_free = is_free]
        ELSE m[x]]

\* size_t subtraction; a result below zero stands for the wrapped value
\* 2^64 + (a - b)
SubSz(a, b) == a - b

\* ------------------------------------------------------------------ bytes
\* Memory is read byte by byte through ByteAt.  A byte belongs either to a
\* field of a header of the map (h.mem) or to the payload bytes (h.data, a
\* sparse map from an address to its non-zero byte; every other byte of a
\* page the kernel handed out is zero).  A header that memset, memmove or a
\* store of the caller writes over stops being a header: its bytes move to
\* the payload map first.

\* 256^k for the four low bytes of a field
Pow256(k) == IF k = 0 THEN 1 ELSE IF k = 1 THEN 256 ELSE IF k = 2 THEN 65536 ELSE 16777216

\* byte k of a little-endian 8-byte field with value v (0 <= v < 2^31)
FieldByte(v, k) == IF k >= 4 THEN 0 ELSE (v \div Pow256(k)) % Byte

\* offsets 9..15 of the struct are padding: no assignment to a field
\* writes them
IsPadding(k) == k > 8 /\ k < 16

\* byte k of a struct MallocMetadata: size at 0, is_free at 8, next at 16,
\* prev at 24
HeaderByte(hdr, k) ==
    IF k < 8 THEN FieldByte(hdr.size, k)
    ELSE IF k = 8 THEN (IF hdr.is_free THEN 1 ELSE 0)
    ELSE IF k < 16 THEN 0
    ELSE IF k < 24 THEN FieldByte(hdr.next, k - 16)
    ELSE FieldByte(hdr.prev, k - 24)

\* headers of the map with a byte in [lo, hi)
HeadersIn(m, lo, hi) == {a \in DOMAIN m : a < hi /\ a + S > lo}

\* the byte stored at address x
ByteAt(h, x) ==
    LET over == {a \in HeadersIn(h.mem, x, x + 1) : ~IsPadding(x - a)}
    IN IF over # {} THEN HeaderByte(h.mem[CHOOSE a \in over : TRUE],
                                    x - (CHOOSE a \in over : TRUE))
       ELSE IF x \in DOMAIN h.data THEN h.data[x] ELSE 0

\* the addresses in [lo, hi) whose byte is not zero
NonZero(h, lo, hi) ==
    {x \in DOMAIN h.data
           \cup UNION {a..(a + S - 1) : a \in HeadersIn(h.mem, lo, hi)} :
        x >= lo /\ x < hi /\ ByteAt(h, x) # 0}

\* the headers at the addresses of A become plain bytes
Dissolve(h, A) ==
    LET cover == UNION {a..(a + S - 1) : a \in A}
        dom == (DOMAIN h.data \ cover) \cup {x \in cover : ByteAt(h, x) # 0}
    IN [h EXCEPT !.mem = [a \in DOMAIN h.mem \ A |-> h.mem[a]],
                 !.data = [x \in dom |->
                             IF x \in cover THEN ByteAt(h, x) ELSE h.data[x]]]

\* a memset that leaves the last byte as it was
memset_OneShort(h, ptr, len) ==
    LET h1 == Dissolve(h, HeadersIn(h.mem, ptr, ptr + len - 1))
    IN [h1 EXCEPT !.data = [x \in {y \in DOMAIN h1.data : y < ptr \/ y >= ptr + len - 1}
                              |-> h1.data[x]]]

\* memset(ptr, 0, len)
memset(h, ptr, len) ==
    LET h1 == Dissolve(h, HeadersIn(h.mem, ptr, ptr + len))
    IN [h1 EXCEPT !.data = [x \in {y \in DOMAIN h1.data : y < ptr \/ y >= ptr + len}
                              |-> h1.data[x]]]

\* a memmove that stops S bytes short of len
memmove_Short(h, dst, src, len) ==
    LET from == NonZero(h, src, src + len - S)
        val == [y \in from |-> ByteAt(h, y)]
        h1 == Dissolve(h, HeadersIn(h.mem, dst, dst + len - S))
        rest == {x \in DOMAIN h1.data : x < dst \/ x >= dst + len - S}
    IN [h1 EXCEPT !.data = [x \in rest \cup {y - src + dst : y \in from} |->
                              IF x >= dst /\ x < dst + len - S
                              THEN val[x - dst + src] ELSE h1.data[x]]]

\* memmove(dst, src, len): the bytes of the source are read before any byte
\* of the destination is written
memmove(h, dst, src, len) ==
    LET from == NonZero(h, src, src + len)
        val == [y \in from |-> ByteAt(h, y)]
        h1 == Dissolve(h, HeadersIn(h.mem, dst, dst + len))
        rest == {x \in DOMAIN h1.data : x < dst \/ x >= dst + len}
    IN [h1 EXCEPT !.data = [x \in rest \cup {y - src + dst : y \in from} |->
                              IF x >= dst /\ x < dst + len
                              THEN val[x - dst + src] ELSE h1.data[x]]]

\* *(char*)x = v by a caller
store(h, x, v) ==
    LET h1 == Dissolve(h, HeadersIn(h.mem, x, x + 1))
    IN [h1 EXCEPT !.data = [y \in (DOMAIN h1.data \ {x}) \cup (IF v = 0 THEN {} ELSE {x})
                              |-> IF y = x THEN v ELSE h1.data[y]]]

\* ------------------------------------------------------------------ engine
\* The operators below take and return the process state as a record h with
\* the fields of the variables declared further down.  Three more fields of
\* h are a record of what a call did and are no part of the process: removed
\* (every invocation of remove, with the memory and the buckets it met),
\* probed (every buddy header a merge loop read, with whether the buddy
\* passed the test) and committed (the buddies srealloc's "do merges" loop
\* took).

RECURSIVE InsertWalk(_, _, _)
\* the while loop of insert: the node after which p is spliced
InsertWalk(m, current, p) ==
    IF Hdr(m, current).next # NULL /\ Hdr(m, current).next < p
    THEN InsertWalk(m, Hdr(m, current).next, p)
    ELSE current

\* an insert that does not point the successor back at the new node
insert_NoBackLink(h, index, p) ==
    LET current == h.free_lists[index]
        m1 == IF current = NULL
              THEN [h.mem EXCEPT ![p].next = NULL, ![p].prev = NULL]
              ELSE LET cur == InsertWalk(h.mem, current, p)
                       next_elem == h.mem[cur].next
                       mb == [h.mem EXCEPT ![p].next = next_elem]
                       mc == [mb EXCEPT ![p].prev = cur]
                   IN [mc EXCEPT ![cur].next = p]
    IN [h EXCEPT !.mem = m1,
                 !.free_lists = IF current = NULL
                                THEN [h.free_lists EXCEPT ![index] = p]
                                ELSE h.free_lists,
                 !.free_blocks = h.free_blocks + 1,
                 !.free_bytes = h.free_bytes + (h.mem[p].size - S)]

\* an insert that adds the whole block, header included, to free_bytes
insert_CountsHeader(h, index, p) ==
    LET current == h.free_lists[index]
        m1 == IF current = NULL
              THEN [h.mem EXCEPT ![p].next = NULL, ![p].prev = NULL]
              ELSE LET cur == InsertWalk(h.mem, current, p)
                       next_elem == h.mem[cur].next
                       ma == IF next_elem # NULL
                             THEN [h.mem EXCEPT ![next_elem].prev = p]
                             ELSE h.mem
                       mb == [ma EXCEPT ![p].next = next_elem]
                       mc == [mb EXCEPT ![p].prev = cur]
                   IN [mc EXCEPT ![cur].next = p]
    IN [h EXCEPT !.mem = m1,
                 !.free_lists = IF current = NULL
                                THEN [h.free_lists EXCEPT ![index] = p]
                                ELSE h.free_lists,
                 !.free_blocks = h.free_blocks + 1,
                 !.free_bytes = h.free_bytes + h.mem[p].size]

insert(h, index, p) ==
    LET current == h.free_lists[index]
        m1 == IF current = NULL
              THEN [h.mem EXCEPT ![p].next = NULL, ![p].prev = NULL]
              ELSE LET cur == InsertWalk(h.mem, current, p)
                       next_elem == h.mem[cur].next
                       ma == IF next_elem # NULL
                             THEN [h.mem EXCEPT ![next_elem].prev = p]
                             ELSE h.mem
                       mb == [ma EXCEPT ![p].next = next_elem]
                       mc == [mb EXCEPT ![p].prev = cur]
                   IN [mc EXCEPT ![cur].next = p]
    IN [h EXCEPT !.mem = m1,
                 !.free_lists = IF current = NULL
                                THEN [h.free_lists EXCEPT ![index] = p]
                                ELSE h.free_lists,
                 !.free_blocks = h.free_blocks + 1,
                 !.free_bytes = h.free_bytes + (h.mem[p].size - S)]

RECURSIVE FindOrderLoop_Le(_, _, _)
\* a loop that also steps past a block size equal to the request
FindOrderLoop_Le(size, current_size, order) ==
    IF current_size <= size /\ order < MAX_ORDER
    THEN FindOrderLoop_Le(size, current_size * 2, order + 1)
    ELSE order

RECURSIVE FindOrderLoop(_, _, _)
\* the while loop of find_order
FindOrderLoop(size, current_size, order) ==
    IF current_size < size /\ order < MAX_ORDER
    THEN FindOrderLoop(size, current_size * 2, order + 1)
    ELSE order

find_order(size) == FindOrderLoop(size, MIN_BLOCK, 0)

\* a remove that leaves the bucket head where it was
remove_KeepsHead(h, ptr) ==
    LET hp == Hdr(h.mem, ptr)
        ma == IF hp.prev = NULL THEN h.mem
              ELSE [h.mem EXCEPT ![hp.prev].next = hp.next]
        mb == IF hp.next # NULL
              THEN [ma EXCEPT ![hp.next].prev = hp.prev]
              ELSE ma
        mc == [mb EXCEPT ![ptr].next = NULL, ![ptr].prev = NULL]
    IN [h EXCEPT !.mem = mc,
                 !.free_blocks = SubSz(h.free_blocks, 1),
                 !.free_bytes = SubSz(h.free_bytes, hp.size - S)]

remove(h, ptr) ==
    LET order == find_order(Hdr(h.mem, ptr).size)
        hp == Hdr(h.mem, ptr)
        fl == IF hp.prev = NULL
              THEN [h.free_lists EXCEPT ![order] = hp.next]
              ELSE h.free_lists
        ma == IF hp.prev = NULL THEN h.mem
              ELSE [h.mem EXCEPT ![hp.prev].next = hp.next]
        mb == IF hp.next # NULL
              THEN [ma EXCEPT ![hp.next].prev = hp.prev]
              ELSE ma
        mc == [mb EXCEPT ![ptr].next = NULL, ![ptr].prev = NULL]
    IN [h EXCEPT !.mem = mc,
                 !.free_lists = fl,
                 !.free_blocks = SubSz(h.free_blocks, 1),
                 !.free_bytes = SubSz(h.free_bytes, hp.size - S),
                 !.removed = Append(@, [ptr |-> ptr, mem |-> h.mem,
                                        free_lists |-> h.free_lists])]

RECURSIVE InitLoop(_, _, _)
\* the for loop of init, from iteration i on
InitLoop(h, first_block, i) ==
    IF i >= INITIAL_BLOCKS THEN h
    ELSE LET block == first_block + i * BLOCK_SIZE
             h1 == [h EXCEPT !.mem = Stamp(h.mem, block, BLOCK_SIZE, TRUE),
                             !.allocated_blocks = h.allocated_blocks + 1,
                             !.allocated_bytes = h.allocated_bytes + (BLOCK_SIZE - S)]
         IN InitLoop(insert(h1, MAX_ORDER, block), first_block, i + 1)

\* an init that raises the flag before it knows whether sbrk succeeded
init_FlagFirst(h, sbrk_ok) ==
    LET total_size == INITIAL_BLOCKS * BLOCK_SIZE
        current_brk == h.brk
        padding == IF current_brk % total_size # 0
                   THEN total_size - (current_brk % total_size)
                   ELSE 0
        ptr == IF sbrk_ok THEN h.brk ELSE FAILED
    IN IF ptr = FAILED THEN [h EXCEPT !.is_initialized = TRUE]
       ELSE LET h1 == [h EXCEPT !.brk = h.brk + padding + total_size]
                first_block == ptr + padding
            IN [InitLoop(h1, first_block, 0) EXCEPT !.is_initialized = TRUE]

\* an init that starts the pool at the program break, without padding
init_NoPadding(h, sbrk_ok) ==
    LET total_size == INITIAL_BLOCKS * BLOCK_SIZE
        ptr == IF sbrk_ok THEN h.brk ELSE FAILED
    IN IF ptr = FAILED THEN h
       ELSE LET h1 == [h EXCEPT !.brk = h.brk + total_size]
                first_block == ptr
            IN [InitLoop(h1, first_block, 0) EXCEPT !.is_initialized = TRUE]

\* sbrk_ok: whether the OS grants the sbrk(padding + total_size) of this call
init(h, sbrk_ok) ==
    LET total_size == INITIAL_BLOCKS * BLOCK_SIZE
        current_brk == h.brk
        padding == IF current_brk % total_size # 0
                   THEN total_size - (current_brk % total_size)
                   ELSE 0
        ptr == IF sbrk_ok THEN h.brk ELSE FAILED
    IN IF ptr = FAILED THEN h
       ELSE LET h1 == [h EXCEPT !.brk = h.brk + padding + total_size]
                first_block == ptr + padding
            IN [InitLoop(h1, first_block, 0) EXCEPT !.is_initialized = TRUE]

\* a search that looks at the target bucket only
ScanLoop_TargetOnly(fl, current_power) ==
    IF fl[current_power] = NULL THEN MAX_ORDER + 1 ELSE current_power

RECURSIVE ScanLoop(_, _)
\* the search loop of smalloc: first non-empty bucket from current_power up
ScanLoop(fl, current_power) ==
    IF current_power <= MAX_ORDER /\ fl[current_power] = NULL
    THEN ScanLoop(fl, current_power + 1)
    ELSE current_power

\* a split that forgets to count the new block
SplitStep_NoCount(h, output, cp) ==
    LET new_size == h.mem[output].size \div 2
        buddy == output + new_size
        h1 == [h EXCEPT !.mem = Stamp(h.mem, buddy, new_size, TRUE)]
        h2 == insert(h1, cp, buddy)
    IN [h2 EXCEPT !.mem[output].size = new_size]

\* a split that leaves the size of the front half as it was
SplitStep_KeepsSize(h, output, cp) ==
    LET new_size == h.mem[output].size \div 2
        buddy == output + new_size
        h1 == [h EXCEPT !.mem = Stamp(h.mem, buddy, new_size, TRUE)]
        h2 == insert(h1, cp, buddy)
    IN [h2 EXCEPT !.allocated_blocks = h2.allocated_blocks + 1]

\* one iteration of the split loop of smalloc, cp being the decremented
\* current_power
SplitStep(h, output, cp) ==
    LET new_size == h.mem[output].size \div 2
        buddy == output + new_size
        h1 == [h EXCEPT !.mem = Stamp(h.mem, buddy, new_size, TRUE)]
        h2 == insert(h1, cp, buddy)
    IN [h2 EXCEPT !.mem[output].size = new_size,
                  !.allocated_blocks = h2.allocated_blocks + 1]

RECURSIVE SplitLoop(_, _, _, _)
\* the split loop of smalloc
SplitLoop(h, output, current_power, power) ==
    IF current_power > power
    THEN SplitLoop(SplitStep(h, output, current_power - 1), output,
                   current_power - 1, power)
    ELSE h

\* a threshold that sends a request of exactly BLOCK_SIZE to mmap as well
IsLargeRequest_Ge(required_size) == required_size >= BLOCK_SIZE

\* the "large block" test of smalloc
IsLargeRequest(required_size) == required_size > BLOCK_SIZE

\* a validation that lets a request of zero bytes through
RejectsSize_ZeroPasses(size) == size > MAX_SIZE

\* the validation of smalloc
RejectsSize(size) == size <= 0 \/ size > MAX_SIZE

\* env.sbrk_ok: as in init; env.mmap_res: the address mmap returns, or FAILED
smalloc(h, size, env) ==
    IF RejectsSize(size) THEN [h |-> h, ret |-> NULL]
    ELSE
    LET h0 == IF ~h.is_initialized THEN init(h, env.sbrk_ok) ELSE h
        required_size == size + S
        power == find_order(required_size)
    IN IF IsLargeRequest(required_size)
       THEN LET out == env.mmap_res
            IN IF out = FAILED THEN [h |-> h0, ret |-> NULL]
               ELSE LET meta == out
                        \* the kernel maps whole pages, zero-filled
                        m0 == [x \in DOMAIN h0.mem \cup {meta} |->
                                 IF x = meta THEN ZeroHeader ELSE h0.mem[x]]
                        m1 == [m0 EXCEPT ![meta] =
                                 Header(required_size, FALSE, h0.mmap_list, NULL)]
                        m2 == IF h0.mmap_list # NULL
                              THEN [m1 EXCEPT ![h0.mmap_list].prev = meta]
                              ELSE m1
                    IN [h |-> [h0 EXCEPT !.mem = m2,
                                         !.mmap_list = meta,
                                         !.maps = [x \in DOMAIN h0.maps \cup {meta} |->
                                                    IF x = meta
                                                    THEN RoundUpPage(required_size)
                                                    ELSE h0.maps[x]]],
                        ret |-> meta + S]
       ELSE LET current_power == ScanLoop(h0.free_lists, power)
            IN IF current_power > MAX_ORDER THEN [h |-> h0, ret |-> NULL]
               ELSE LET output == h0.free_lists[current_power]
                        h1 == remove(h0, output)
                        h2 == [h1 EXCEPT !.mem[output].is_free = FALSE]
                    IN [h |-> SplitLoop(h2, output, current_power, power),
                        ret |-> output + S]

\* munmap(addr, len): the pages of [addr, addr + len) leave the address space
munmap(h, addr, len) ==
    LET gone == {a \in DOMAIN h.maps :
                    a >= addr /\ a + h.maps[a] <= addr + RoundUpPage(len)}
    IN [h EXCEPT !.maps = [a \in DOMAIN h.maps \ gone |-> h.maps[a]],
                 !.mem = [a \in {x \in DOMAIN h.mem :
                                   \A g \in gone : ~(x >= g /\ x < g + h.maps[g])}
                            |-> h.mem[a]],
                 !.data = [a \in {x \in DOMAIN h.data :
                                    \A g \in gone : ~(x >= g /\ x < g + h.maps[g])}
                             |-> h.data[a]]]

\* a merge loop that stops one order early
MergeLoopGuard_Short(order) == order < MAX_ORDER - 1

\* the condition of the merge loop of sfree
MergeLoopGuard(order) == order < MAX_ORDER

\* a buddy test with the size comparison inverted
MergeBreaks_SizeEq(m, meta, buddy) ==
    ~Hdr(m, buddy).is_free \/ Hdr(m, buddy).size = Hdr(m, meta).size

\* a buddy test that compares the sizes only
MergeBreaks_SizeOnly(m, meta, buddy) ==
    Hdr(m, buddy).size # Hdr(m, meta).size

\* the buddy test of the merge loop: TRUE when the loop breaks
MergeBreaks(m, meta, buddy) ==
    ~Hdr(m, buddy).is_free \/ Hdr(m, buddy).size # Hdr(m, meta).size

\* a merge that keeps meta where it was when the buddy lies below it
MergeStep_KeepsMeta(h, meta, buddy) ==
    LET h1 == remove(h, buddy)
    IN [h |-> [h1 EXCEPT !.mem[meta].size = h1.mem[meta].size * 2,
                         !.allocated_blocks = SubSz(h1.allocated_blocks, 1)],
        meta |-> meta]

\* the merge of meta with its free buddy; yields the state and the header
\* that survives
MergeStep(h, meta, buddy) ==
    LET h1 == remove(h, buddy)
        meta1 == IF buddy < meta THEN buddy ELSE meta
    IN [h |-> [h1 EXCEPT !.mem[meta1].size = h1.mem[meta1].size * 2,
                         !.allocated_blocks = SubSz(h1.allocated_blocks, 1)],
        meta |-> meta1]

RECURSIVE MergeLoop(_, _, _)
\* the merge loop of sfree; yields the state, the surviving header and its
\* order
MergeLoop(h, meta, order) ==
    IF MergeLoopGuard(order)
    THEN LET block_addr == meta
             buddy_addr == Xor(block_addr, Hdr(h.mem, meta).size)
             buddy == buddy_addr
             hp == [h EXCEPT !.probed =
                       Append(@, [addr |-> buddy,
                                  ok |-> ~MergeBreaks(h.mem, meta, buddy),
                                  mem |-> h.mem, free_lists |-> h.free_lists])]
         IN IF MergeBreaks(h.mem, meta, buddy)
            THEN [h |-> hp, meta |-> meta, order |-> order]
            ELSE LET r == MergeStep(hp, meta, buddy)
                 IN MergeLoop(r.h, r.meta, order + 1)
    ELSE [h |-> h, meta |-> meta, order |-> order]

\* a release that marks the block free only after merging, on the header
\* that survived
ReleasePooled_MarkAfter(h, meta) ==
    LET order == find_order(Hdr(h.mem, meta).size)
        r == MergeLoop(h, meta, order)
        h1 == [r.h EXCEPT !.mem = Stamp(r.h.mem, r.meta,
                                        Hdr(r.h.mem, r.meta).size, TRUE)]
    IN insert(h1, r.order, r.meta)

\* sfree of a pooled block that is not free: mark, merge, insert
ReleasePooled(h, meta) ==
    LET order == find_order(Hdr(h.mem, meta).size)
        h1 == [h EXCEPT !.mem = Stamp(h.mem, meta, Hdr(h.mem, meta).size, TRUE)]
        r == MergeLoop(h1, meta, order)
    IN insert(r.h, r.order, r.meta)

\* a test that takes a maximum-order pooled block for a large one
IsLargeBlock_Ge(size) == size >= BLOCK_SIZE

\* the "large block" test of sfree
IsLargeBlock(size) == size > BLOCK_SIZE

\* an sfree that unlinks a large block without fixing its successor's prev
sfree_NoBackLink(h, p) ==
    IF p = NULL \/ p <= S THEN h
    ELSE
    LET meta == p - S
    IN IF IsLargeBlock(Hdr(h.mem, meta).size)
       THEN LET prev_elem == h.mem[meta].prev
                next_elem == h.mem[meta].next
                ml == IF prev_elem = NULL THEN next_elem ELSE h.mmap_list
                ma == IF prev_elem = NULL THEN h.mem
                      ELSE [h.mem EXCEPT ![prev_elem].next = next_elem]
                mc == [ma EXCEPT ![meta].next = NULL, ![meta].prev = NULL]
            IN munmap([h EXCEPT !.mem = mc, !.mmap_list = ml], meta, mc[meta].size)
       ELSE IF Hdr(h.mem, meta).is_free THEN h
       ELSE ReleasePooled(h, meta)

sfree(h, p) ==
    IF p = NULL \/ p <= S THEN h
    ELSE
    LET meta == p - S
    IN IF IsLargeBlock(Hdr(h.mem, meta).size)
       THEN LET prev_elem == h.mem[meta].prev
                next_elem == h.mem[meta].next
                ml == IF prev_elem = NULL THEN next_elem ELSE h.mmap_list
                ma == IF prev_elem = NULL THEN h.mem
                      ELSE [h.mem EXCEPT ![prev_elem].next = next_elem]
                mb == IF next_elem # NULL
                      THEN [ma EXCEPT ![next_elem].prev = prev_elem]
                      ELSE ma
                mc == [mb EXCEPT ![meta].next = NULL, ![meta].prev = NULL]
            IN munmap([h EXCEPT !.mem = mc, !.mmap_list = ml], meta, mc[meta].size)
       ELSE IF Hdr(h.mem, meta).is_free THEN h
       ELSE ReleasePooled(h, meta)

RECURSIVE SpeculateLoop(_, _, _, _, _)
\* the "can we merge" loop of srealloc; yields possible_size and can_merge,
\* and the buddies whose headers it read
SpeculateLoop(m, size, possible_size, curr, can_merge) ==
    IF possible_size < BLOCK_SIZE /\ possible_size < size + S
    THEN LET buddy_addr == Xor(curr, possible_size)
             buddy == buddy_addr
         IN IF ~Hdr(m, buddy).is_free \/ Hdr(m, buddy).size # possible_size
            THEN [possible_size |-> possible_size, can_merge |-> FALSE,
                  probed |-> <<[addr |-> buddy, ok |-> FALSE]>>]
            ELSE LET r == SpeculateLoop(m, size, possible_size * 2,
                                        IF buddy_addr < curr THEN buddy_addr ELSE curr,
                                        TRUE)
                 IN [r EXCEPT !.probed = <<[addr |-> buddy, ok |-> TRUE]>> \o @]
    ELSE [possible_size |-> possible_size, can_merge |-> can_merge,
          probed |-> <<>>]

\* a merge that keeps counting the absorbed buddy as a block
CommitStep_KeepsCount(h, old_meta_ptr, oldp) ==
    LET buddy_addr == Xor(old_meta_ptr, Hdr(h.mem, old_meta_ptr).size)
        buddy == buddy_addr
        h1 == remove(h, buddy)
        left == buddy < old_meta_ptr
        meta1 == IF left THEN buddy ELSE old_meta_ptr
        hm == IF left
              THEN memmove(h1, meta1 + S, oldp, Hdr(h1.mem, meta1).size - S)
              ELSE h1
        oldp1 == IF left THEN meta1 + S ELSE oldp
        h2 == [hm EXCEPT !.mem = Stamp(hm.mem, meta1,
                                       Hdr(hm.mem, meta1).size * 2, FALSE)]
    IN [h |-> h2, meta |-> meta1, oldp |-> oldp1]

\* one iteration of the "do merges" loop of srealloc; yields the state, the
\* header that survives and the payload pointer
CommitStep(h, old_meta_ptr, oldp) ==
    LET buddy_addr == Xor(old_meta_ptr, Hdr(h.mem, old_meta_ptr).size)
        buddy == buddy_addr
        h1 == remove(h, buddy)
        left == buddy < old_meta_ptr
        meta1 == IF left THEN buddy ELSE old_meta_ptr
        hm == IF left
              THEN memmove(h1, meta1 + S, oldp, Hdr(h1.mem, meta1).size - S)
              ELSE h1
        oldp1 == IF left THEN meta1 + S ELSE oldp
        h2 == [hm EXCEPT !.mem = Stamp(hm.mem, meta1,
                                       Hdr(hm.mem, meta1).size * 2, FALSE),
                         !.allocated_blocks = SubSz(hm.allocated_blocks, 1),
                         !.committed = Append(@, buddy)]
    IN [h |-> h2, meta |-> meta1, oldp |-> oldp1]

RECURSIVE CommitLoop(_, _, _, _)
\* the "do merges" loop of srealloc; yields the state and the payload pointer
CommitLoop(h, old_meta_ptr, oldp, possible_size) ==
    IF Hdr(h.mem, old_meta_ptr).size < possible_size
    THEN LET r == CommitStep(h, old_meta_ptr, oldp)
         IN CommitLoop(r.h, r.meta, r.oldp, possible_size)
    ELSE [h |-> h, ret |-> oldp]

\* a test that subtracts the header from the block size twice
FitsInPlace_HeaderTwice(size, old_size) == size + S <= SubSz(old_size, S)

\* the "already large enough" test of srealloc
FitsInPlace(size, old_size) == size <= SubSz(old_size, S)

\* the fallback of srealloc once smalloc(size) has answered r: copy the old
\* payload to the new block and release the old one
MoveToNew(r, oldp) ==
    IF r.ret = NULL THEN [h |-> r.h, ret |-> NULL]
    ELSE [h |-> sfree(memmove(r.h, r.ret, oldp,
                              Hdr(r.h.mem, oldp - S).size - S), oldp),
          ret |-> r.ret]

srealloc(h, oldp, size, env) ==
    IF size <= 0 \/ size >= MAX_SIZE THEN [h |-> h, ret |-> NULL]
    ELSE IF oldp = NULL THEN smalloc(h, size, env)
    ELSE
    LET old_meta_ptr == oldp - S
        old == Hdr(h.mem, old_meta_ptr)
        spec == SpeculateLoop(h.mem, size, old.size, old_meta_ptr, FALSE)
        hs == IF old.size <= BLOCK_SIZE
              THEN [h EXCEPT !.probed =
                      [i \in 1..Len(spec.probed) |->
                         [addr |-> spec.probed[i].addr, ok |-> spec.probed[i].ok,
                          mem |-> h.mem, free_lists |-> h.free_lists]]]
              ELSE h
    IN IF FitsInPlace(size, old.size) THEN [h |-> h, ret |-> oldp]
       ELSE IF old.size <= BLOCK_SIZE
               /\ spec.can_merge /\ spec.possible_size >= size + S
            THEN CommitLoop(hs, old_meta_ptr, oldp, spec.possible_size)
            ELSE MoveToNew(smalloc(hs, size, env), oldp)

\* the end of scalloc once smalloc(num*size) has answered r: the len bytes
\* at the pointer are set to zero
ZeroFilled(r, len) ==
    IF r.ret = NULL THEN r
    ELSE [h |-> memset(r.h, r.ret, len), ret |-> r.ret]

\* num and size are size_t values (8 bytes each)
scalloc(h, num, size, env) ==
    IF W64IsZero(num) \/ W64IsZero(size)
       \/ W64Geq(size, ToW64(MAX_SIZE))
       \/ W64Geq(W64Mul(num, size), ToW64(MAX_SIZE))
    THEN [h |-> h, ret |-> NULL]
    ELSE ZeroFilled(smalloc(h, W64ToInt(W64Mul(num, size)), env),
                    W64ToInt(W64Mul(num, size)))

\* ------------------------------------------------------------------ state
VARIABLES
    mem,               \* address -> header stored there
    free_lists,        \* order -> head of the bucket
    mmap_list,         \* head of the large-block list
    free_blocks, free_bytes, allocated_blocks, allocated_bytes,
    is_initialized,
    brk,               \* the program break
    maps,              \* base address -> length of every live mapping
    data,              \* address -> non-zero payload byte stored there
    held,              \* payload pointers the callers hold
    freed,             \* pooled pointers released since the last allocation call
    lastOp,            \* the last call and its arguments
    ret,               \* what the last call returned (NULL after sfree)
    dirty,             \* non-zero bytes that lay, before the last call, in
                       \* the range the call promised at the pointer it returned
    calls,             \* number of calls made so far
    firstMeta,         \* malloc_2.cpp: the head of the block list
    proc,              \* "running", or how the process ended inside a call:
                       \* "killed" by a signal, "hung" in a loop
    granted            \* malloc_2.cpp: whether the OS was set to grant the
                       \* sbrk of the last allocating call

engine == <<mem, free_lists, mmap_list, free_blocks, free_bytes,
            allocated_blocks, allocated_bytes, is_initialized, brk, maps, data>>
vars == <<mem, free_lists, mmap_list, free_blocks, free_bytes,
          allocated_blocks, allocated_bytes, is_initialized, brk, maps, data,
          held, freed, lastOp, ret, dirty, calls, firstMeta, proc, granted>>

\* the process state as the record the engine operators work on
Cur ==
    [mem |-> mem, free_lists |-> free_lists, mmap_list |-> mmap_list,
     free_blocks |-> free_blocks, free_bytes |-> free_bytes,
     allocated_blocks |-> allocated_blocks, allocated_bytes |-> allocated_bytes,
     is_initialized |-> is_initialized, brk |-> brk, maps |-> maps,
     data |-> data,
     removed |-> <<>>, probed |-> <<>>, committed |-> <<>>]

Becomes(h) ==
    /\ mem' = h.mem
    /\ free_lists' = h.free_lists
    /\ mmap_list' = h.mmap_list
    /\ free_blocks' = h.free_blocks
    /\ free_bytes' = h.free_bytes
    /\ allocated_blocks' = h.allocated_blocks
    /\ allocated_bytes' = h.allocated_bytes
    /\ is_initialized' = h.is_initialized
    /\ brk' = h.brk
    /\ maps' = h.maps
    /\ data' = h.data
    /\ UNCHANGED <<firstMeta, proc, granted>>

Zero64 == ToW64(0)

Op(op, p, n, num, size, owned) ==
    [op |-> op, p |-> p, n |-> n, num |-> num, size |-> size, owned |-> owned]

\* a held pointer is large when its block lies in a mapping
LargePtrs(ptrs, mp) == {p \in ptrs : (p - S) \in DOMAIN mp}
PooledPtrs(ptrs, mp) == ptrs \ LargePtrs(ptrs, mp)

\* the lowest address of MmapAddrs that no live mapping uses, if any
FreeAddrs == MmapAddrs \ DOMAIN maps
NextAddr == {a \in FreeAddrs : \A b \in FreeAddrs : a <= b}

\* the environments a call may meet: sbrk granted or refused (asked only
\* while the engine is not initialized), mmap returning an unused address or
\* failing (asked only when asksMmap)
Envs(asksMmap) ==
    [sbrk_ok : IF is_initialized THEN {TRUE} ELSE BOOLEAN,
     mmap_res : IF asksMmap THEN NextAddr \cup {FAILED} ELSE {FAILED}]

\* the state of a process that starts with its program break in brks
InitFrom(brks) ==
    /\ mem = << >>
    /\ free_lists = [o \in 0..MAX_ORDER |-> NULL]
    /\ mmap_list = NULL
    /\ free_blocks = 0
    /\ free_bytes = 0
    /\ allocated_blocks = 0
    /\ allocated_bytes = 0
    /\ is_initialized = FALSE
    /\ brk \in brks
    /\ maps = << >>
    /\ data = << >>
    /\ held = {}
    /\ freed = {}
    /\ lastOp = Op("none", NULL, 0, Zero64, Zero64, FALSE)
    /\ ret = NULL
    /\ dirty = 0
    /\ calls = 0
    /\ firstMeta = NULL
    /\ proc = "running"
    /\ granted = TRUE

Init == InitFrom(InitBrks)

\* bookkeeping shared by the allocating calls: r is the engine's result,
\* old the pointer the call gave up (NULL if none), len the number of bytes
\* the call promises
Allocated(r, old, len, maxHeld, maxLarge, maxCalls) ==
    LET held1 == IF r.ret = NULL THEN held ELSE (held \ {old}) \cup {r.ret}
    IN /\ calls < maxCalls
       /\ calls' = calls + 1
       /\ Cardinality(PooledPtrs(held1, r.h.maps)) <= maxHeld
       /\ Cardinality(LargePtrs(held1, r.h.maps)) <= maxLarge
       /\ Becomes(r.h)
       /\ held' = held1
       /\ freed' = {}
       /\ ret' = r.ret
       /\ dirty' = IF r.ret = NULL THEN 0
                   ELSE Cardinality(NonZero(Cur, r.ret, r.ret + len))

SmallocStep(n, env, maxHeld, maxLarge, maxCalls) ==
    /\ Allocated(smalloc(Cur, n, env), NULL, n, maxHeld, maxLarge, maxCalls)
    /\ lastOp' = Op("smalloc", NULL, n, Zero64, Zero64, FALSE)

SmallocCall(n) ==
    \E env \in Envs(n + S > BLOCK_SIZE) : SmallocStep(n, env, MaxHeld, MaxLarge, MaxCalls)

\* (num, size) pairs the callers pass to scalloc: valid ones, and ones the
\* validation has to judge; <<86, 85, ...>> is 0x5555555555555556, whose
\* product with 3 is 2^64 + 2
CallocArgs == {<<ToW64(1), ToW64(100)>>, <<ToW64(3), ToW64(30)>>}
CallocEdgeArgs ==
    {<<ToW64(1), ToW64(100)>>,
     <<ToW64(20000), ToW64(20000)>>,
     <<ToW64(100000), ToW64(100000)>>,
     <<(<<86, 85, 85, 85, 85, 85, 85, 85>>), ToW64(3)>>,
     <<ToW64(0), ToW64(8)>>,
     <<ToW64(8), ToW64(0)>>,
     <<ToW64(100000001), ToW64(1)>>,
     <<ToW64(2), ToW64(50000000)>>,
     <<ToW64(1), ToW64(99999999)>>}

ScallocCall(num, size) ==
    \E env \in Envs(FALSE) :
        /\ Allocated(scalloc(Cur, num, size, env), NULL,
                     W64ToInt(W64Mul(num, size)), MaxHeld, MaxLarge, MaxCalls)
        /\ lastOp' = Op("scalloc", NULL, 0, num, size, FALSE)

\* pointers a caller may pass to sfree: one it holds, one it already
\* released, null, or an address inside the first header width
SfreeStep(p, maxCalls) ==
    /\ calls < maxCalls
    /\ calls' = calls + 1
    /\ Becomes(sfree(Cur, p))
    /\ held' = held \ {p}
    /\ freed' = IF p \in PooledPtrs(held, maps) THEN freed \cup {p} ELSE freed
    /\ lastOp' = Op("sfree", p, 0, Zero64, Zero64, p \in held)
    /\ ret' = NULL
    /\ dirty' = 0

SfreeCall(p) == SfreeStep(p, MaxCalls)

SreallocCall(p, n) ==
    \E env \in Envs(n + S > BLOCK_SIZE) :
        /\ Allocated(srealloc(Cur, p, n, env), p, n, MaxHeld, MaxLarge, MaxCalls)
        /\ lastOp' = Op("srealloc", p, n, Zero64, Zero64, p \in held)

Next ==
    \/ \E n \in AllocSizes : SmallocCall(n)
    \/ \E a \in CallocArgs : ScallocCall(a[1], a[2])
    \/ \E p \in held \cup freed : SfreeCall(p)
    \/ \E p \in held, n \in AllocSizes : SreallocCall(p, n)

Spec == Init /\ [][Next]_vars

\* ------------------------------------------------------------------ exhaustion
\* Callers that only allocate, with every OS call succeeding.
ExhaustSizes == {BLOCK_SIZE - S, BLOCK_SIZE}

ExhaustCall(n) ==
    SmallocStep(n, [sbrk_ok |-> TRUE,
                    mmap_res |-> ExhaustAddr(Cardinality(DOMAIN maps))],
                INITIAL_BLOCKS, MaxLargeExhaust, MaxCallsExhaust)

NextExhaust == \E n \in ExhaustSizes : ExhaustCall(n)

SpecExhaust == Init /\ [][NextExhaust]_vars

\* ------------------------------------------------------------------ edge inputs
\* Callers that pass arguments on and beyond the limits.

\* request sizes: zero, a large one, and the sizes around MAX_SIZE
EdgeSizes == {0, 200000, MAX_SIZE - 1, MAX_SIZE, MAX_SIZE + 1}

\* pointers sfree has to ignore: null and an address within the first
\* header width
IgnoredPtrs == {NULL, S}

SmallocEdgeCall(n) ==
    \E env \in Envs(TRUE) : SmallocStep(n, env, MaxHeld, MaxLarge, MaxCallsEdge)

SreallocEdgeCall(p, n) ==
    \E env \in Envs(TRUE) :
        /\ Allocated(srealloc(Cur, p, n, env), p, n, MaxHeld, MaxLarge, MaxCallsEdge)
        /\ lastOp' = Op("srealloc", p, n, Zero64, Zero64, p \in held)

ScallocEdgeCall(num, size) ==
    \E env \in Envs(TRUE) :
        /\ Allocated(scalloc(Cur, num, size, env), NULL,
                     W64ToInt(W64Mul(num, size)), MaxHeld, MaxLarge, MaxCallsEdge)
        /\ lastOp' = Op("scalloc", NULL, 0, num, size, FALSE)

NextEdge ==
    \/ \E n \in EdgeSizes : SmallocEdgeCall(n)
    \/ \E a \in CallocEdgeArgs : ScallocEdgeCall(a[1], a[2])
    \/ \E p \in held \cup freed \cup IgnoredPtrs :
          SfreeStep(p, MaxCallsEdge)
    \/ \E p \in held \cup {NULL}, n \in EdgeSizes : SreallocEdgeCall(p, n)

SpecEdge == Init /\ [][NextEdge]_vars

\* ------------------------------------------------------------------ large blocks
\* Callers that ask for blocks beyond BLOCK_SIZE, release them in any order
\* and have them grown; mmap hands out the lowest unused address of
\* LargeAddrs or fails.
LargeSizes == {200000, 250000}
LargeAddrs == {ExhaustAddr(k) : k \in 0..MaxLargeList}
LargeEnvs ==
    [sbrk_ok : IF is_initialized THEN {TRUE} ELSE BOOLEAN,
     mmap_res : {a \in LargeAddrs \ DOMAIN maps :
                    \A b \in LargeAddrs \ DOMAIN maps : a <= b} \cup {FAILED}]

SmallocLargeCall(n) ==
    \E env \in LargeEnvs : SmallocStep(n, env, MaxHeld, MaxLargeList, MaxCallsLarge)

SfreeLargeCall(p) == SfreeStep(p, MaxCallsLarge)

SreallocLargeCall(p, n) ==
    \E env \in LargeEnvs :
        /\ Allocated(srealloc(Cur, p, n, env), p, n, MaxHeld, MaxLargeList,
                     MaxCallsLarge)
        /\ lastOp' = Op("srealloc", p, n, Zero64, Zero64, p \in held)

NextLarge ==
    \/ \E n \in LargeSizes : SmallocLargeCall(n)
    \/ \E p \in held : SfreeLargeCall(p)
    \/ \E p \in held, n \in LargeSizes : SreallocLargeCall(p, n)

SpecLarge == Init /\ [][NextLarge]_vars

\* ------------------------------------------------------------------ orders
\* find_order applied to byte counts on, just below and just above every
\* block size, and to the smallest and the largest count a caller can cause.
OrderSizes ==
    {1, MAX_SIZE + S}
        \cup UNION {{MIN_BLOCK * 2^o - 1, MIN_BLOCK * 2^o, MIN_BLOCK * 2^o + 1} :
                      o \in 0..MAX_ORDER}

\* order = find_order(n); the order is kept in ret
FindOrderCall(n) ==
    /\ calls < MaxCallsOrder
    /\ calls' = calls + 1
    /\ ret' = find_order(n)
    /\ lastOp' = Op("find_order", NULL, n, Zero64, Zero64, FALSE)
    /\ UNCHANGED <<engine, held, freed, dirty, firstMeta, proc, granted>>

NextOrder == \E n \in OrderSizes : FindOrderCall(n)

SpecOrder == Init /\ [][NextOrder]_vars

\* ------------------------------------------------------------------ observers
RECURSIVE ListSeq(_, _, _)
\* the addresses met by following next from head, at most fuel of them
ListSeq(m, head, fuel) ==
    IF head = NULL \/ fuel = 0 THEN <<>>
    ELSE <<head>> \o ListSeq(m, Hdr(m, head).next, fuel - 1)

RECURSIVE ListSet(_, _, _)
\* the same addresses as a set
ListSet(m, head, fuel) ==
    IF head = NULL \/ fuel = 0 THEN {}
    ELSE {head} \cup ListSet(m, Hdr(m, head).next, fuel - 1)

Bucket(o) == ListSeq(mem, free_lists[o], Cardinality(DOMAIN mem))
BucketSet(o) == ListSet(mem, free_lists[o], Cardinality(DOMAIN mem))
FreeNodes == UNION {BucketSet(o) : o \in 0..MAX_ORDER}
\* the nodes of the free lists fl in memory m
FreeNodesIn(m, fl) ==
    UNION {ListSet(m, fl[o], Cardinality(DOMAIN m)) : o \in 0..MAX_ORDER}

SetMin(A) == CHOOSE a \in A : \A b \in A : a <= b

RECURSIVE SumPayload(_, _)
\* sum of size - S over the headers at the addresses in A
SumPayload(m, A) ==
    IF A = {} THEN 0
    ELSE LET a == SetMin(A) IN (Hdr(m, a).size - S) + SumPayload(m, A \ {a})

PooledHeld == PooledPtrs(held, maps)
LargeHeld == LargePtrs(held, maps)
PoolBase == brk - INITIAL_BLOCKS * BLOCK_SIZE
PoolBlocks == {PoolBase + i * BLOCK_SIZE : i \in 0..(INITIAL_BLOCKS - 1)}

\* an environment in which no OS call is needed or all are refused
NoEnv == [sbrk_ok |-> FALSE, mmap_res |-> FAILED]
\* an environment in which sbrk is granted
SbrkEnv == [sbrk_ok |-> TRUE, mmap_res |-> FAILED]

\* ------------------------------------------------------------------ drained pool
\* A caller that first takes every maximum-order block of the pool but the
\* last, and then asks for blocks of order 0, MAX_ORDER - 1 and MAX_ORDER
\* and releases blocks of that last part of the pool.
DrainSetupCalls == INITIAL_BLOCKS - 1
DrainSizes == {90, BLOCK_SIZE \div 2 - S, BLOCK_SIZE - S}

DrainSetupCall ==
    /\ calls < DrainSetupCalls
    /\ SmallocStep(BLOCK_SIZE - S, SbrkEnv, INITIAL_BLOCKS, MaxLarge, DrainSetupCalls)

SmallocDrainCall(n) ==
    /\ calls >= DrainSetupCalls
    /\ SmallocStep(n, SbrkEnv, DrainSetupCalls + MaxHeld, MaxLarge,
                   DrainSetupCalls + MaxCallsDrain)

SfreeDrainCall(p) ==
    /\ calls >= DrainSetupCalls
    /\ p - S >= PoolBase + DrainSetupCalls * BLOCK_SIZE
    /\ SfreeStep(p, DrainSetupCalls + MaxCallsDrain)

NextDrain ==
    \/ DrainSetupCall
    \/ \E n \in DrainSizes : SmallocDrainCall(n)
    \/ \E p \in held : SfreeDrainCall(p)

SpecDrain == Init /\ [][NextDrain]_vars

\* ------------------------------------------------------------------ payload
\* Callers that store bytes in the blocks they hold, release them, have
\* them grown and ask for zeroed blocks.

\* the number and the size of the blocks the caller starts with, and the
\* sizes it grows them to: order 1, order 2 and a large one
DataBlocks == 4
DataSize == 90
GrowSizes == {200, 400, 200000}
DataCallocArgs == {<<ToW64(3), ToW64(30)>>}

\* the bytes a caller stores: one at the first and one at the last address
\* of the DataSize bytes it asked for
Stored == <<(<<0, 170>>), (<<DataSize - 1, 85>>)>>

\* the caller starts with DataBlocks times p = smalloc(DataSize) followed
\* by the stores at p, sbrk being granted
SetupCall ==
    /\ calls < 2 * DataBlocks
    /\ lastOp.op # "smalloc"
    /\ SmallocStep(DataSize, SbrkEnv, DataBlocks, MaxLarge, 2 * DataBlocks)

\* the caller has its blocks and has stored its bytes
Ready == calls >= 2 * DataBlocks

RECURSIVE StoreAll(_, _, _)
\* the stores of Stored from the i-th on, at pointer p
StoreAll(h, p, i) ==
    IF i > Len(Stored) THEN h
    ELSE StoreAll(store(h, p + Stored[i][1], Stored[i][2]), p, i + 1)

StoreCall(p) ==
    /\ lastOp.op = "smalloc" /\ p = ret
    /\ calls' = calls + 1
    /\ Becomes(StoreAll(Cur, p, 1))
    /\ lastOp' = Op("store", p, 0, Zero64, Zero64, p \in held)
    /\ UNCHANGED <<held, freed>>
    /\ ret' = NULL
    /\ dirty' = 0

SfreeDataCall(p) ==
    /\ Ready
    /\ SfreeStep(p, 2 * DataBlocks + MaxCallsData)

SreallocDataCall(p, n) ==
    \E env \in Envs(n + S > BLOCK_SIZE) :
        /\ Ready
        /\ Allocated(srealloc(Cur, p, n, env), p, n, DataBlocks, MaxLarge,
                     2 * DataBlocks + MaxCallsData)
        /\ lastOp' = Op("srealloc", p, n, Zero64, Zero64, p \in held)

ScallocDataCall(num, size) ==
    \E env \in Envs(FALSE) :
        /\ Ready
        /\ Allocated(scalloc(Cur, num, size, env), NULL,
                     W64ToInt(W64Mul(num, size)), DataBlocks, MaxLarge,
                     2 * DataBlocks + MaxCallsData)
        /\ lastOp' = Op("scalloc", NULL, 0, num, size, FALSE)

NextData ==
    \/ SetupCall
    \/ \E p \in held : StoreCall(p)
    \/ \E p \in held : SfreeDataCall(p)
    \/ \E p \in held, n \in GrowSizes : SreallocDataCall(p, n)
    \/ \E a \in DataCallocArgs : ScallocDataCall(a[1], a[2])

SpecData == Init /\ [][NextData]_vars

\* The same callers in shorter runs, for the properties that examine every
\* call a caller can make next.
SfreeFrameCall(p) ==
    /\ Ready
    /\ SfreeStep(p, 2 * DataBlocks + MaxCallsFrame)

SreallocFrameCall(p, n) ==
    \E env \in Envs(n + S > BLOCK_SIZE) :
        /\ Ready
        /\ Allocated(srealloc(Cur, p, n, env), p, n, DataBlocks, MaxLarge,
                     2 * DataBlocks + MaxCallsFrame)
        /\ lastOp' = Op("srealloc", p, n, Zero64, Zero64, p \in held)

ScallocFrameCall(num, size) ==
    \E env \in Envs(FALSE) :
        /\ Ready
        /\ Allocated(scalloc(Cur, num, size, env), NULL,
                     W64ToInt(W64Mul(num, size)), DataBlocks, MaxLarge,
                     2 * DataBlocks + MaxCallsFrame)
        /\ lastOp' = Op("scalloc", NULL, 0, num, size, FALSE)

NextFrame ==
    \/ SetupCall
    \/ \E p \in held : StoreCall(p)
    \/ \E p \in held : SfreeFrameCall(p)
    \/ \E p \in held, n \in GrowSizes : SreallocFrameCall(p, n)
    \/ \E a \in DataCallocArgs : ScallocFrameCall(a[1], a[2])

SpecFrame == Init /\ [][NextFrame]_vars

\* ------------------------------------------------------------------ threshold
\* Callers that ask for half a maximum-order block, for the largest payload
\* a pooled block can carry, and for one byte more.
ThresholdSizes == {BLOCK_SIZE \div 2 - S, BLOCK_SIZE - S, BLOCK_SIZE - S + 1}

SmallocThresholdCall(n) ==
    \E env \in Envs(n + S > BLOCK_SIZE) :
        SmallocStep(n, env, MaxHeld, MaxLarge, MaxCallsThreshold)

SfreeThresholdCall(p) == SfreeStep(p, MaxCallsThreshold)

SreallocThresholdCall(p, n) ==
    \E env \in Envs(n + S > BLOCK_SIZE) :
        /\ Allocated(srealloc(Cur, p, n, env), p, n, MaxHeld, MaxLarge,
                     MaxCallsThreshold)
        /\ lastOp' = Op("srealloc", p, n, Zero64, Zero64, p \in held)

NextThreshold ==
    \/ \E n \in ThresholdSizes : SmallocThresholdCall(n)
    \/ \E p \in held \cup freed : SfreeThresholdCall(p)
    \/ \E p \in held, n \in ThresholdSizes : SreallocThresholdCall(p, n)

SpecThreshold == Init /\ [][NextThreshold]_vars

\* ------------------------------------------------------------------ alignment
\* Callers of a process whose program break starts anywhere above its data
\* segment: on a multiple of 32 * BLOCK_SIZE, one byte before and after
\* one, and far from one.
AlignBrks ==
    {INITIAL_BLOCKS * BLOCK_SIZE - 1, INITIAL_BLOCKS * BLOCK_SIZE,
     INITIAL_BLOCKS * BLOCK_SIZE + 1, 6000000}
AlignSizes == {90, 100}

SmallocAlignCall(n) ==
    \E env \in Envs(FALSE) : SmallocStep(n, env, MaxHeld, MaxLarge, MaxCallsAlign)

SfreeAlignCall(p) == SfreeStep(p, MaxCallsAlign)

SreallocAlignCall(p, n) ==
    \E env \in Envs(FALSE) :
        /\ Allocated(srealloc(Cur, p, n, env), p, n, MaxHeld, MaxLarge, MaxCallsAlign)
        /\ lastOp' = Op("srealloc", p, n, Zero64, Zero64, p \in held)

NextAlign ==
    \/ \E n \in AlignSizes : SmallocAlignCall(n)
    \/ \E p \in held \cup freed : SfreeAlignCall(p)
    \/ \E p \in held, n \in AlignSizes : SreallocAlignCall(p, n)

SpecAlign == InitFrom(AlignBrks) /\ [][NextAlign]_vars

\* ------------------------------------------------------------------ list allocator
\* malloc_2.cpp, read as written.  Three readings are fixed here: meta.size,
\* meta.next and meta.prev (lines 50-56) are the fields of *meta;
\* `return NULL` in sfree (83) returns; a void* is converted to a
\* MallocMetadata* where the code assigns one (45, 84, 100).  Pointer
\* arithmetic is C++'s: on a MallocMetadata* it counts headers (37, 48,
\* 55, 56), on a void* it counts bytes (84, 100).
\* The operators take and return the record l of the fields mem, data,
\* firstMeta, the four counters, brk and proc.

\* ptr + sizeof(MallocMetadata) on a MallocMetadata*: S headers of S bytes
HeaderStride == S * S

\* a value beyond the integers of the model
Huge == 2^31 - 1

\* the pages of the heap: from the first block to the end of the page the
\* program break lies in.  The process is killed by a read or a write of
\* an address outside them, address zero included.
Accessible(l, lo, hi) ==
    /\ l.firstMeta # NULL
    /\ lo >= l.firstMeta
    /\ hi <= RoundUpPage(l.brk)

\* the 8-byte field stored at address x
FieldAt(l, x) ==
    IF \E k \in 3..7 : ByteAt(l, x + k) # 0 THEN Huge
    ELSE ByteAt(l, x) + 256 * ByteAt(l, x + 1) + 65536 * ByteAt(l, x + 2)

\* the header read through a MallocMetadata* with value a, in accessible
\* memory: the bytes found there, whatever wrote them
Load(l, a) ==
    IF a \in DOMAIN l.mem THEN l.mem[a]
    ELSE Header(FieldAt(l, a), ByteAt(l, a + 8) # 0,
                FieldAt(l, a + 16), FieldAt(l, a + 24))

\* the memory after an assignment to fields of the header at a, hdr being
\* the header it leaves there
StoreHeader(l, a, hdr) ==
    LET l1 == Dissolve(l, HeadersIn(l.mem, a, a + S) \ {a})
        keep == {x \in DOMAIN l1.data : x < a \/ x >= a + S \/ IsPadding(x - a)}
    IN [l1 EXCEPT !.mem = [x \in DOMAIN l1.mem \cup {a} |->
                             IF x = a THEN hdr ELSE l1.mem[x]],
                  !.data = [x \in keep |-> l1.data[x]]]

\* the process ends inside the call
Ends(l, how) == [l |-> [l EXCEPT !.proc = how], ret |-> NULL]

RECURSIVE SearchLoop(_, _, _, _)
\* the do-while of smalloc from the iteration with ptr on; seen: the
\* pointers of the iterations so far.  Yields what ended the loop: a block
\* "found", "none" (ptr came back to firstMeta), the process "killed" by a
\* read through ptr, or "hung" on a pointer it had already visited
SearchLoop(l, ptr, size, seen) ==
    IF ptr = NULL THEN [kind |-> "killed", ptr |-> ptr]
    ELSE IF ~Accessible(l, ptr, ptr + S) THEN [kind |-> "killed", ptr |-> ptr]
    ELSE IF Load(l, ptr).is_free /\ Load(l, ptr).size >= size
         THEN [kind |-> "found", ptr |-> ptr]
    ELSE LET nxt == Load(l, ptr).next
         IN IF nxt = l.firstMeta THEN [kind |-> "none", ptr |-> nxt]
            ELSE IF nxt \in seen THEN [kind |-> "hung", ptr |-> nxt]
            ELSE SearchLoop(l, nxt, size, seen \cup {nxt})

\* the do-while of smalloc (lines 26-42)
Search(l, size) == SearchLoop(l, l.firstMeta, size, {l.firstMeta})

\* lines 34-37: the block found becomes used
Reuse(l, ptr) ==
    LET hdr == Load(l, ptr)
        l1 == StoreHeader(l, ptr, [hdr EXCEPT !.is_free = FALSE])
    IN [l |-> [l1 EXCEPT !.free_blocks = SubSz(l.free_blocks, 1),
                         !.free_bytes = SubSz(l.free_bytes, hdr.size)],
        ret |-> ptr + HeaderStride]

\* lines 53-66: the new block meta is linked after the last one
Link(l, meta) ==
    IF l.firstMeta = NULL
    THEN LET hdr == Load(l, meta)
         IN [StoreHeader(l, meta, [hdr EXCEPT !.next = meta + HeaderStride,
                                              !.prev = meta + HeaderStride])
                EXCEPT !.firstMeta = meta]
    ELSE IF ~Accessible(l, Load(l, l.firstMeta).prev, Load(l, l.firstMeta).prev + S)
    THEN [l EXCEPT !.proc = "killed"]
    ELSE LET previousLast == Load(l, l.firstMeta).prev
             l1 == StoreHeader(l, meta, [Load(l, meta) EXCEPT
                                            !.next = l.firstMeta,
                                            !.prev = previousLast])
             l2 == StoreHeader(l1, previousLast,
                               [Load(l1, previousLast) EXCEPT !.next = meta])
         IN StoreHeader(l2, l.firstMeta,
                        [Load(l2, l.firstMeta) EXCEPT !.prev = meta])

\* lines 45-67: a new block at the program break
Create(l, size, sbrk_ok) ==
    IF ~sbrk_ok THEN [l |-> l, ret |-> NULL]
    ELSE LET meta == l.brk
             l1 == [l EXCEPT !.brk = l.brk + S + size]
             \* the break has moved: meta is accessible whatever firstMeta is
             l2 == StoreHeader(l1, meta, [Load(l1, meta) EXCEPT !.size = size])
             l3 == [l2 EXCEPT !.allocated_blocks = l.allocated_blocks + 1,
                              !.allocated_bytes = l.allocated_bytes + size]
         IN [l |-> Link(l3, meta), ret |-> meta + HeaderStride]

\* what smalloc does once the search has ended with s
Served(l, size, sbrk_ok, s) ==
    IF s.kind = "killed" \/ s.kind = "hung" THEN Ends(l, s.kind)
    ELSE IF s.kind = "found" THEN Reuse(l, s.ptr)
    ELSE Create(l, size, sbrk_ok)

\* malloc_2.cpp smalloc
smalloc2(l, size, sbrk_ok) ==
    IF size <= 0 THEN [l |-> l, ret |-> NULL]
    ELSE IF size > MAX_SIZE THEN [l |-> l, ret |-> NULL]
    ELSE Served(l, size, sbrk_ok, Search(l, size))

\* lines 74-78 of scalloc once smalloc has answered r
ZeroFilled2(r, len) ==
    IF r.ret = NULL THEN r
    ELSE IF ~Accessible(r.l, r.ret, r.ret + len) THEN Ends(r.l, "killed")
    ELSE [l |-> memset(r.l, r.ret, len), ret |-> r.ret]

\* malloc_2.cpp scalloc
scalloc2(l, num, size, sbrk_ok) ==
    IF W64IsZero(num) \/ W64IsZero(size)
       \/ W64Geq(size, ToW64(MAX_SIZE))
       \/ W64Geq(W64Mul(num, size), ToW64(MAX_SIZE))
    THEN [l |-> l, ret |-> NULL]
    ELSE ZeroFilled2(smalloc2(l, W64ToInt(W64Mul(num, size)), sbrk_ok),
                     W64ToInt(W64Mul(num, size)))

\* lines 86-89 and 109-112: the header found S bytes below the payload
\* pointer is marked free and counted
MarkFree(l, meta_ptr) ==
    LET hdr == Load(l, meta_ptr)
        l1 == StoreHeader(l, meta_ptr, [hdr EXCEPT !.is_free = TRUE])
    IN [l1 EXCEPT !.free_blocks = l.free_blocks + 1,
                  !.free_bytes = l.free_bytes + hdr.size]

\* malloc_2.cpp sfree
sfree2(l, p) ==
    IF p = NULL \/ p <= S THEN l
    ELSE LET meta_ptr == p - S
         IN IF ~Accessible(l, meta_ptr, meta_ptr + S)
            THEN [l EXCEPT !.proc = "killed"]
            ELSE MarkFree(l, meta_ptr)

\* lines 104-114 of srealloc once smalloc has answered r
MoveToNew2(r, oldp) ==
    IF r.l.proc # "running" \/ r.ret = NULL THEN [l |-> r.l, ret |-> NULL]
    ELSE LET old_meta_ptr == oldp - S
             len == Load(r.l, old_meta_ptr).size
         IN IF ~Accessible(r.l, oldp, oldp + len)
               \/ ~Accessible(r.l, r.ret, r.ret + len)
            THEN Ends(r.l, "killed")
            ELSE [l |-> MarkFree(memmove(r.l, r.ret, oldp, len), old_meta_ptr),
                  ret |-> r.ret]

\* malloc_2.cpp srealloc
srealloc2(l, oldp, size, sbrk_ok) ==
    IF size <= 0 \/ size >= MAX_SIZE THEN [l |-> l, ret |-> NULL]
    ELSE IF oldp = NULL THEN smalloc2(l, size, sbrk_ok)
    ELSE IF ~Accessible(l, oldp - S, oldp) THEN Ends(l, "killed")
    ELSE IF size <= Load(l, oldp - S).size THEN [l |-> l, ret |-> oldp]
    ELSE MoveToNew2(smalloc2(l, size, sbrk_ok), oldp)

\* the process state as the record the operators of the list allocator
\* work on
CurList ==
    [mem |-> mem, data |-> data, firstMeta |-> firstMeta,
     free_blocks |-> free_blocks, free_bytes |-> free_bytes,
     allocated_blocks |-> allocated_blocks, allocated_bytes |-> allocated_bytes,
     brk |-> brk, proc |-> proc]

BecomesList(l) ==
    /\ mem' = l.mem
    /\ data' = l.data
    /\ firstMeta' = l.firstMeta
    /\ free_blocks' = l.free_blocks
    /\ free_bytes' = l.free_bytes
    /\ allocated_blocks' = l.allocated_blocks
    /\ allocated_bytes' = l.allocated_bytes
    /\ brk' = l.brk
    /\ proc' = l.proc
    /\ UNCHANGED <<free_lists, mmap_list, is_initialized, maps>>

\* program breaks the process may start with: page-aligned and not
ListBrks == {4198400, 4200000}
\* request sizes of the callers, valid ones and ones to reject
ListSizes == {0, 1, 100, MAX_SIZE, MAX_SIZE + 1}
ListCallocArgs ==
    {<<ToW64(1), ToW64(100)>>, <<ToW64(0), ToW64(8)>>, <<ToW64(2), ToW64(50000000)>>}

\* bookkeeping shared by the allocating calls of the list allocator: r is
\* the result, old the pointer the call gave up (NULL if none)
ListAllocated(r, old) ==
    /\ proc = "running"
    /\ calls < MaxCallsList
    /\ calls' = calls + 1
    /\ BecomesList(r.l)
    /\ held' = IF r.ret = NULL THEN held ELSE (held \ {old}) \cup {r.ret}
    /\ freed' = IF r.ret = NULL \/ old = NULL \/ old = r.ret
                THEN freed \ {r.ret} ELSE (freed \ {r.ret}) \cup {old}
    /\ ret' = r.ret
    /\ dirty' = 0

SmallocListCall(n) ==
    \E sbrk_ok \in BOOLEAN :
        /\ ListAllocated(smalloc2(CurList, n, sbrk_ok), NULL)
        /\ lastOp' = Op("smalloc", NULL, n, Zero64, Zero64, FALSE)
        /\ granted' = sbrk_ok

ScallocListCall(num, size) ==
    \E sbrk_ok \in BOOLEAN :
        /\ ListAllocated(scalloc2(CurList, num, size, sbrk_ok), NULL)
        /\ lastOp' = Op("scalloc", NULL, 0, num, size, FALSE)
        /\ granted' = sbrk_ok

SfreeListCall(p) ==
    /\ proc = "running"
    /\ calls < MaxCallsList
    /\ calls' = calls + 1
    /\ BecomesList(sfree2(CurList, p))
    /\ held' = held \ {p}
    /\ freed' = IF p \in held THEN freed \cup {p} ELSE freed
    /\ lastOp' = Op("sfree", p, 0, Zero64, Zero64, p \in held)
    /\ ret' = NULL
    /\ dirty' = 0
    /\ UNCHANGED granted

SreallocListCall(p, n) ==
    \E sbrk_ok \in BOOLEAN :
        /\ ListAllocated(srealloc2(CurList, p, n, sbrk_ok), p)
        /\ lastOp' = Op("srealloc", p, n, Zero64, Zero64, p \in held)
        /\ granted' = sbrk_ok

NextList ==
    \/ \E n \in ListSizes : SmallocListCall(n)
    \/ \E a \in ListCallocArgs : ScallocListCall(a[1], a[2])
    \/ \E p \in held \cup freed \cup IgnoredPtrs : SfreeListCall(p)
    \/ \E p \in held \cup {NULL}, n \in ListSizes : SreallocListCall(p, n)

SpecList == InitFrom(ListBrks) /\ [][NextList]_vars

\* ------------------------------------------------------------------ claims

\* C1: a pooled smalloc(n) on an initialized engine returns the payload of
\* the lowest-address free block of the lowest-order non-empty bucket in
\* [find_order(n + S), MAX_ORDER], whatever the order of earlier releases.
C1_FirstFitLowestAddress ==
    [][(/\ lastOp'.op = "smalloc"
        /\ is_initialized
        /\ lastOp'.n + S <= BLOCK_SIZE
        /\ ret' # NULL)
       => LET o == ScanLoop(free_lists, find_order(lastOp'.n + S))
          IN ret' - S = SetMin(BucketSet(o))]_vars

\* sizes of pooled requests tried from every state
RoundTripSizes == {1, 97, 400, 65000, BLOCK_SIZE - S}

\* the engine after p = smalloc(n); sfree(p), or unchanged if smalloc fails
RoundTrip(n) ==
    LET r == smalloc(Cur, n, NoEnv)
    IN IF r.ret = NULL THEN Cur ELSE sfree(r.h, r.ret)

\* splits a pooled smalloc(n) performs in the current state
SplitsOf(n) ==
    ScanLoop(free_lists, find_order(n + S)) - find_order(n + S)

\* C2: from every initialized state and for every pooled size n for which
\* smalloc(n) succeeds, p = smalloc(n); sfree(p) leaves num_free_blocks and
\* num_free_bytes at the values they had before the smalloc.
C2_RoundTripRestoresFreeCounters ==
    is_initialized =>
        \A n \in RoundTripSizes :
            /\ RoundTrip(n).free_blocks = free_blocks
            /\ RoundTrip(n).free_bytes = free_bytes

\* a release has just happened in a fragmented pool with blocks still held,
\* and a round trip from here splits and merges again
C2_Witness ==
    /\ is_initialized
    /\ lastOp.op = "sfree" /\ lastOp.owned
    /\ PooledHeld # {}
    /\ free_blocks > INITIAL_BLOCKS
    /\ \E n \in RoundTripSizes :
          /\ smalloc(Cur, n, NoEnv).ret # NULL
          /\ SplitsOf(n) >= 2

\* C3: sfree(p) on a pooled pointer that was already released, with no
\* allocation call in between, changes nothing: free lists, headers and the
\* four counters keep the values the first sfree(p) left.
C3_DoubleFreeIsNoOp ==
    [][(lastOp'.op = "sfree" /\ ~lastOp'.owned /\ lastOp'.p \in freed)
       => UNCHANGED engine]_vars

\* a second sfree of a pointer whose block was absorbed by a merge
C3_Witness ==
    /\ lastOp.op = "sfree" /\ ~lastOp.owned
    /\ lastOp.p \in freed
    /\ (lastOp.p - S) \notin FreeNodes

\* C4: whenever the engine is initialized and no pooled block is held, the
\* pool is fully coalesced: 32 free blocks, 32 allocated blocks, bucket
\* MAX_ORDER holds the 32 maximum-order blocks and every lower bucket is
\* empty.
C4_FullyCoalescedWhenAllReleased ==
    (is_initialized /\ PooledHeld = {}) =>
        /\ free_blocks = INITIAL_BLOCKS
        /\ allocated_blocks = INITIAL_BLOCKS
        /\ BucketSet(MAX_ORDER) = PoolBlocks
        /\ Len(Bucket(MAX_ORDER)) = INITIAL_BLOCKS
        /\ \A a \in PoolBlocks : mem[a].size = BLOCK_SIZE /\ mem[a].is_free
        /\ \A o \in 0..(MAX_ORDER - 1) : free_lists[o] = NULL

\* the last of several pooled blocks has just been released
C4_Witness ==
    /\ is_initialized /\ PooledHeld = {}
    /\ lastOp.op = "sfree" /\ lastOp.owned
    /\ Cardinality(freed) >= 2

\* C5 as stated: smalloc(128 * 1024) without releasing succeeds exactly
\* INITIAL_BLOCKS times, i.e. a call succeeds iff at most INITIAL_BLOCKS
\* blocks of that request are held after it.
C5_PoolExhaustedByBlockSize ==
    (lastOp.op = "smalloc" /\ lastOp.n = BLOCK_SIZE) =>
        (ret # NULL <=> Cardinality(LargeHeld) <= INITIAL_BLOCKS)

\* C5 (amended): with every OS call succeeding and nothing released, the
\* k-th smalloc(128 * 1024 - S) returns the k-th maximum-order block of the
\* pool for k <= INITIAL_BLOCKS and null afterwards; smalloc(128 * 1024) is
\* served outside the pool and leaves it untouched.
C5_PoolExhaustedByMaxPayload ==
    [][/\ (lastOp'.op = "smalloc" /\ lastOp'.n = BLOCK_SIZE - S) =>
            IF Cardinality(PooledHeld) < INITIAL_BLOCKS
            THEN ret' = PoolBase' + Cardinality(PooledHeld) * BLOCK_SIZE + S
            ELSE ret' = NULL /\ PooledHeld' = PooledHeld
       /\ (lastOp'.op = "smalloc" /\ lastOp'.n = BLOCK_SIZE) =>
            /\ ret' \in LargeHeld'
            /\ is_initialized => UNCHANGED <<free_lists, free_blocks>>]_vars

\* the 33rd smalloc(128 * 1024 - S) has returned null
C5_Witness ==
    /\ lastOp.op = "smalloc" /\ lastOp.n = BLOCK_SIZE - S
    /\ ret = NULL
    /\ Cardinality(PooledHeld) = INITIAL_BLOCKS
    /\ free_blocks = 0

\* C6: num_free_blocks plus the number of pooled blocks held by callers
\* equals num_allocated_blocks after every call; a split adds one block and
\* a merge removes one.
C6_BlockCountBalance ==
    /\ free_blocks + Cardinality(PooledHeld) = allocated_blocks
    /\ free_blocks = Cardinality(FreeNodes)

\* srealloc has just grown a block in place by merging it into its free
\* left buddy, while another block is held
C6_Witness ==
    /\ lastOp.op = "srealloc" /\ lastOp.owned
    /\ ret = lastOp.p - MIN_BLOCK
    /\ mem[ret - S].size = 2 * MIN_BLOCK
    /\ Cardinality(PooledHeld) >= 2
    /\ free_blocks > INITIAL_BLOCKS

\* C7: num_allocated_bytes is the sum over all pooled blocks, free and
\* owned, of block size minus header size: every split lowers it by S.
C7_AllocatedBytesExcludeHeaders ==
    is_initialized =>
        allocated_bytes =
            SumPayload(mem, FreeNodes \cup {p - S : p \in PooledHeld})

\* C8: on an initialized engine a successful large smalloc raises
\* num_allocated_blocks by one, and the sfree of a large pointer lowers it
\* by one.
C8_LargeBlockCounted ==
    [][/\ (/\ lastOp'.op = "smalloc" /\ is_initialized
           /\ ret' \in LargeHeld')
          => allocated_blocks' = allocated_blocks + 1
       /\ (lastOp'.op = "sfree" /\ lastOp'.p \in LargeHeld)
          => allocated_blocks' = allocated_blocks - 1]_vars

\* allocation calls that always reach init while the engine is not
\* initialized
AllocOps == {"smalloc", "scalloc"}

RECURSIVE WideCol(_, _, _, _, _)
\* sum of a[i] * b[k + 1 - i] for i in lo..hi
WideCol(a, b, k, lo, hi) ==
    IF lo > hi THEN 0 ELSE a[lo] * b[k + 1 - lo] + WideCol(a, b, k, lo + 1, hi)

RECURSIVE WideMulRec(_, _, _, _)
WideMulRec(a, b, k, carry) ==
    IF k > 2 * W64Len THEN <<>>
    ELSE LET lo == IF k > W64Len THEN k - W64Len + 1 ELSE 1
             hi == IF k > W64Len THEN W64Len ELSE k
             t == WideCol(a, b, k, lo, hi) + carry
         IN <<(t % Byte)>> \o WideMulRec(a, b, k + 1, t \div Byte)
WideMul(a, b) == WideMulRec(a, b, 1, 0)

\* num * size > MAX_SIZE over the integers
ProductExceedsMax(num, size) ==
    LET w == WideMul(num, size)
        low == [i \in 1..W64Len |-> w[i]]
    IN (\E i \in (W64Len + 1)..(2 * W64Len) : w[i] # 0)
       \/ (W64Geq(low, ToW64(MAX_SIZE)) /\ low # ToW64(MAX_SIZE))

\* C10: scalloc(num, size) returns null whenever the product num * size,
\* taken without overflow, exceeds MAX_SIZE.
C10_CallocRejectsOverflow ==
    (lastOp.op = "scalloc" /\ ProductExceedsMax(lastOp.num, lastOp.size))
        => ret = NULL

\* the environments a call may meet in the current state, whatever it asks
EnvsAll == [sbrk_ok : BOOLEAN, mmap_res : NextAddr \cup {FAILED}]

\* the environments in which mmap grants the mapping
EnvsMapped == {env \in EnvsAll : env.mmap_res # FAILED}

\* C11: a request of exactly MAX_SIZE bytes passes the validation of every
\* entry point and yields a pointer whenever mmap grants the mapping:
\* smalloc(MAX_SIZE), scalloc(num, size) with num * size = MAX_SIZE, and
\* srealloc(p, MAX_SIZE) for a pointer p the caller holds.
C11_LimitInclusive ==
    \A env \in EnvsMapped :
        /\ smalloc(Cur, MAX_SIZE, env).ret # NULL
        /\ scalloc(Cur, ToW64(2), ToW64(MAX_SIZE \div 2), env).ret # NULL
        /\ \A p \in held : srealloc(Cur, p, MAX_SIZE, env).ret # NULL

\* C12: from every state and in every environment srealloc(nullptr, n)
\* returns what smalloc(n) returns and leaves the engine in the state
\* smalloc(n) leaves it in, for n = 0, a large n, and n around MAX_SIZE.
C12_ReallocNullIsMalloc ==
    \A n \in EdgeSizes, env \in EnvsAll :
        srealloc(Cur, NULL, n, env) = smalloc(Cur, n, env)

\* C13: a srealloc(p, n) on a held pointer that returns null leaves the
\* engine as it was (headers, payload bytes, free lists, large-block list,
\* counters, flag) and p still held.
C13_FailedReallocChangesNothing ==
    [][(lastOp'.op = "srealloc" /\ lastOp'.owned /\ ret' = NULL)
       => (UNCHANGED engine /\ held' = held)]_vars

\* the calls the validation rejects
RejectedCall(op) ==
    \/ op.op = "smalloc" /\ (op.n = 0 \/ op.n > MAX_SIZE)
    \/ op.op = "scalloc" /\ (W64IsZero(op.num) \/ W64IsZero(op.size))
    \/ op.op = "sfree" /\ (op.p = NULL \/ op.p <= S)

\* C18: smalloc(0), smalloc(n) with n > MAX_SIZE, scalloc with num = 0 or
\* size = 0, sfree(nullptr) and sfree(p) with p <= S return (null where a
\* pointer is returned) and leave counters, free lists, large-block list,
\* flag, break, headers and payload bytes as they were.
C18_RejectedInputsNoSideEffects ==
    [][RejectedCall(lastOp')
       => (UNCHANGED engine /\ ret' = NULL /\ held' = held)]_vars

\* a request beyond MAX_SIZE has been rejected on an engine that is still
\* waiting for its pool while a large block is held
C18_Witness ==
    /\ lastOp.op = "smalloc" /\ lastOp.n > MAX_SIZE
    /\ ret = NULL
    /\ ~is_initialized
    /\ LargeHeld # {}

RECURSIVE GrowPlan(_, _, _)
\* what growing the block of size s at address a to at least need bytes
\* takes: whether each successive buddy is a free block of the running
\* size, the buddies, and the address and size of the merged block
GrowPlan(a, s, need) ==
    IF s >= need THEN [ok |-> TRUE, buddies |-> {}, base |-> a, size |-> s]
    ELSE LET b == Xor(a, s)
         IN IF s < BLOCK_SIZE /\ b \in FreeNodes /\ mem[b].size = s
            THEN LET r == GrowPlan(Min(a, b), 2 * s, need)
                 IN [r EXCEPT !.buddies = r.buddies \cup {b}]
            ELSE [ok |-> FALSE, buddies |-> {}, base |-> a, size |-> s]

\* C15: srealloc(p, n) on a pooled block with n + S > h.size whose
\* successive buddies are free and of the running size until n + S is
\* reached grows in place: it takes exactly those buddies out of the free
\* lists and nothing else, maps nothing, returns the payload of the merged
\* block at the lowest of the merged addresses, leaves that block owned
\* with the smallest doubling of h.size that is >= n + S, and lowers
\* num_allocated_blocks once per merge.
C15_GrowsInPlace ==
    [][LET p == lastOp'.p
           n == lastOp'.n
           plan == GrowPlan(p - S, mem[p - S].size, n + S)
       IN (/\ lastOp'.op = "srealloc" /\ lastOp'.owned
           /\ p \in PooledHeld
           /\ n + S > mem[p - S].size
           /\ n + S <= BLOCK_SIZE
           /\ plan.ok)
          => /\ ret' = plan.base + S
             /\ FreeNodesIn(mem', free_lists') = FreeNodes \ plan.buddies
             /\ free_blocks' = free_blocks - Cardinality(plan.buddies)
             /\ allocated_blocks' = allocated_blocks - Cardinality(plan.buddies)
             /\ mem'[plan.base].size = plan.size
             /\ ~mem'[plan.base].is_free
             /\ plan.size < 2 * (n + S)
             /\ held' = (held \ {p}) \cup {ret'}
             /\ UNCHANGED <<maps, mmap_list, brk>>]_vars

\* a block of order 0 has been grown to order 2 by a merge with its left
\* buddy followed by a merge with the right buddy of the pair
C15_Witness ==
    /\ lastOp.op = "srealloc" /\ lastOp.owned
    /\ lastOp.n + S > 2 * MIN_BLOCK
    /\ ret = lastOp.p - MIN_BLOCK
    /\ mem[ret - S].size = 4 * MIN_BLOCK
    /\ (ret - S) % (4 * MIN_BLOCK) = 0
    /\ PooledHeld # {ret}

\* C16: after a successful srealloc(p, n) on a held pointer the first
\* min(h.size - S, n) bytes at the returned pointer are the bytes that were
\* at p before the call, on the move path and on in-place growth.
C16_PayloadPreserved ==
    [][(lastOp'.op = "srealloc" /\ lastOp'.owned /\ ret' # NULL)
       => LET p == lastOp'.p
              len == Min(mem[p - S].size - S, lastOp'.n)
              offs == {x - p : x \in NonZero(Cur, p, p + len)}
                      \cup {x - ret' : x \in NonZero(Cur', ret', ret' + len)}
          IN \A i \in offs : ByteAt(Cur', ret' + i) = ByteAt(Cur, p + i)]_vars

\* a block with stored bytes has been grown by two leftward merges, into
\* blocks that carried other bytes, and the stored bytes are at the new
\* pointer
C16_Witness ==
    /\ lastOp.op = "srealloc" /\ lastOp.owned
    /\ ret = lastOp.p - 3 * MIN_BLOCK
    /\ mem[ret - S].size = 4 * MIN_BLOCK
    /\ dirty > 0
    /\ \A i \in 1..Len(Stored) : ByteAt(Cur, ret + Stored[i][1]) = Stored[i][2]

\* C17: after a successful scalloc(num, size) every one of the num * size
\* bytes at the returned pointer is zero.
C17_CallocZeroes ==
    (lastOp.op = "scalloc" /\ ret # NULL)
        => NonZero(Cur, ret, ret + W64ToInt(W64Mul(lastOp.num, lastOp.size))) = {}

\* scalloc has returned a block in whose range a caller had stored
\* non-zero bytes before releasing it
C17_Witness ==
    /\ lastOp.op = "scalloc" /\ ret # NULL
    /\ dirty >= Len(Stored)
    /\ ret \in PooledHeld

\* C19: a request is served by mmap iff n + S > BLOCK_SIZE, and a request
\* with n + S = BLOCK_SIZE by a maximum-order block of the pool; a held
\* block has h.size > BLOCK_SIZE iff it lies in a mapping; sfree of a pooled
\* block unmaps nothing, leaves the large-block list alone and adds the
\* block to the free lists, sfree of a large block unmaps it and leaves
\* the free lists alone; every free-list node lies in the pool.
C19_LargeIffBeyondBlockSize ==
    [][/\ (lastOp'.op = "smalloc" /\ ret' # NULL)
          => /\ ((ret' - S) \in DOMAIN maps' /\ (ret' - S) \notin DOMAIN maps)
                    <=> lastOp'.n + S > BLOCK_SIZE
             /\ lastOp'.n + S = BLOCK_SIZE
                    => /\ (ret' - S) \in PoolBlocks'
                       /\ mem'[ret' - S].size = BLOCK_SIZE
       /\ \A q \in held' :
             mem'[q - S].size > BLOCK_SIZE <=> (q - S) \in DOMAIN maps'
       /\ (lastOp'.op = "sfree" /\ lastOp'.owned /\ lastOp'.p \in PooledHeld)
          => /\ UNCHANGED <<maps, mmap_list>>
             /\ free_bytes' > free_bytes
             /\ \E a \in FreeNodesIn(mem', free_lists') :
                   a <= lastOp'.p - S /\ lastOp'.p - S < a + mem'[a].size
       /\ (lastOp'.op = "sfree" /\ lastOp'.owned /\ lastOp'.p \in LargeHeld)
          => /\ (lastOp'.p - S) \notin DOMAIN maps'
             /\ UNCHANGED <<free_lists, free_blocks, free_bytes>>
       /\ \A a \in FreeNodesIn(mem', free_lists') :
             /\ is_initialized' /\ a >= PoolBase' /\ a < brk'
             /\ a \notin DOMAIN maps']_vars

\* a maximum-order block that was handed out for a request of exactly
\* BLOCK_SIZE - S bytes has been released next to a held large block of
\* BLOCK_SIZE + 1 bytes
C19_Witness ==
    /\ lastOp.op = "sfree" /\ lastOp.owned
    /\ (lastOp.p - S) \in PoolBlocks
    /\ (lastOp.p - S) \in BucketSet(MAX_ORDER)
    /\ \E q \in LargeHeld : mem[q - S].size = BLOCK_SIZE + 1
    /\ \E q \in PooledHeld : mem[q - S].size = BLOCK_SIZE

\* C20: the header size of every large block is a multiple of the page
\* size and is the length of its mapping.
C20_LargeSizePageMultiple ==
    \A q \in LargeHeld :
        /\ mem[q - S].size % PAGE_SIZE = 0
        /\ mem[q - S].size = maps[q - S]

\* C27: between public operations the addresses along next are strictly
\* ascending in every free-list bucket.
C27_BucketsAscending ==
    \A o \in 0..MAX_ORDER :
        \A i \in 1..(Len(Bucket(o)) - 1) : Bucket(o)[i] < Bucket(o)[i + 1]

\* the blocks of the buckets below MAX_ORDER, as <<address, size>> pairs
FreeBelowMax ==
    {<<a, mem[a].size>> : a \in UNION {BucketSet(o) : o \in 0..(MAX_ORDER - 1)}}

\* C28: between public operations no block of a bucket below MAX_ORDER has
\* its buddy, the block of the same size at address XOR size, in the free
\* lists as well.
C28_NoFreeBuddyPairs ==
    \A b \in FreeBelowMax :
        ~(Xor(b[1], b[2]) \in FreeNodes /\ mem[Xor(b[1], b[2])].size = b[2])

\* blocks have been split, released without a free buddy, merged on release
\* and grown in place: a free block lies below MAX_ORDER next to an owned
\* buddy after an sfree that merged
C28_Witness ==
    /\ lastOp.op = "sfree" /\ lastOp.owned
    /\ FreeBelowMax # {}
    /\ \E p \in PooledHeld : Xor(p - S, mem[p - S].size) \in FreeNodes
    /\ \E p \in freed : (p - S) \notin FreeNodes

\* C29: between public operations every block of bucket o has size
\* 128 << o and is marked free, and every pooled block a caller holds is
\* marked not free.
C29_BucketSizeAndFlags ==
    /\ \A o \in 0..MAX_ORDER : \A a \in BucketSet(o) :
          mem[a].size = MIN_BLOCK * 2^o /\ mem[a].is_free
    /\ \A p \in PooledHeld : ~mem[p - S].is_free

\* free blocks of three orders are linked while a caller holds a block
\* that srealloc grew in place
C29_Witness ==
    /\ Cardinality({o \in 0..MAX_ORDER : free_lists[o] # NULL}) >= 3
    /\ lastOp.op = "srealloc" /\ lastOp.owned /\ ret # NULL
    /\ ret \in PooledHeld
    /\ mem[ret - S].size > MIN_BLOCK
    /\ lastOp.n + S > MIN_BLOCK

\* C30: the address of every pooled block, free or owned, is a multiple of
\* its size, and the pool starts at a multiple of 32 * BLOCK_SIZE.
C30_BlocksAligned ==
    /\ is_initialized => PoolBase % (INITIAL_BLOCKS * BLOCK_SIZE) = 0
    /\ \A a \in FreeNodes \cup {p - S : p \in PooledHeld} : a % mem[a].size = 0

\* the pool was set up at the second multiple of 32 * BLOCK_SIZE, from a
\* program break strictly between the first and the second, and a block of
\* it was split and released next to a held one
C30_Witness ==
    /\ is_initialized
    /\ PoolBase = 2 * INITIAL_BLOCKS * BLOCK_SIZE
    /\ lastOp.op = "sfree" /\ lastOp.owned
    /\ PooledHeld # {} /\ FreeBelowMax # {}

RECURSIVE RingFrom(_, _, _, _)
\* malloc_2.cpp: the blocks met by following next from a until first comes
\* up again, at most fuel of them
RingFrom(m, a, first, fuel) ==
    IF a = NULL \/ fuel = 0 THEN <<>>
    ELSE <<a>> \o (IF Hdr(m, a).next = first THEN <<>>
                   ELSE RingFrom(m, Hdr(m, a).next, first, fuel - 1))

\* the block list in list order
Ring == RingFrom(mem, firstMeta, firstMeta, Cardinality(DOMAIN mem))

\* the positions of the list whose block is free and has at least n bytes
Fitting(n) == {i \in 1..Len(Ring) : mem[Ring[i]].is_free /\ mem[Ring[i]].size >= n}

\* smalloc(n) has been called with a size it accepts and the OS set to
\* grant sbrk
ValidSmalloc == 
    /\ lastOp'.op = "smalloc"
    /\ lastOp'.n > 0 /\ lastOp'.n <= MAX_SIZE
    /\ granted'

\* C22: smalloc(n) returns the first block in list order that is free and
\* has size >= n, leaving the program break alone, and creates a block at
\* the program break exactly when the list has no such block.
C22_FirstFitOrExtend ==
    [][ValidSmalloc =>
         /\ proc' = "running"
         /\ Fitting(lastOp'.n) # {}
               => /\ ret' = Ring[SetMin(Fitting(lastOp'.n))] + S
                  /\ brk' = brk
                  /\ allocated_blocks' = allocated_blocks
         /\ Fitting(lastOp'.n) = {}
               => /\ ret' = brk + S
                  /\ brk' = brk + S + lastOp'.n
                  /\ allocated_blocks' = allocated_blocks + 1]_vars

\* C23: a smalloc(n) that has to create a block raises num_allocated_blocks
\* by 1, num_allocated_bytes by n and num_meta_data_bytes by S; an sfree of
\* a pointer the caller holds marks the header S bytes below it, a block of
\* the list, free, raises num_free_blocks by 1 and num_free_bytes by that
\* block's size, and leaves the allocation counters alone.
C23_CreateAndReleaseCounters ==
    [][/\ (ValidSmalloc /\ Fitting(lastOp'.n) = {})
          => /\ allocated_blocks' = allocated_blocks + 1
             /\ allocated_bytes' = allocated_bytes + lastOp'.n
             /\ S * allocated_blocks' = S * allocated_blocks + S
       /\ (lastOp'.op = "sfree" /\ lastOp'.owned)
          => /\ \E i \in 1..Len(Ring) : Ring[i] = lastOp'.p - S
             /\ mem'[lastOp'.p - S].is_free
             /\ free_blocks' = free_blocks + 1
             /\ free_bytes' = free_bytes + mem[lastOp'.p - S].size
             /\ UNCHANGED <<allocated_blocks, allocated_bytes>>]_vars

\* C26: the first smalloc(n) with 0 < n <= MAX_SIZE on a fresh allocator,
\* sbrk being granted, returns: the process is running, the pointer is not
\* null, and the list is the one new block, linked to itself.
C26_FirstSmallocCompletes ==
    [][(ValidSmalloc /\ firstMeta = NULL)
         => /\ proc' = "running"
            /\ ret' # NULL
            /\ firstMeta' = brk
            /\ firstMeta' \in DOMAIN mem'
            /\ mem'[firstMeta'].size = lastOp'.n
            /\ mem'[firstMeta'].next = firstMeta'
            /\ mem'[firstMeta'].prev = firstMeta']_vars

\* the large-block list in list order
LargeList == ListSeq(mem, mmap_list, Cardinality(DOMAIN mem))

\* C31: between public operations no block is linked in two lists or twice
\* in one list, no pooled block a caller holds is linked in a bucket, and
\* the pooled block an allocating call returned is in no bucket, with both
\* of its links cleared.
C31_LinkedAtMostOnce ==
    /\ \A o \in 0..MAX_ORDER : Len(Bucket(o)) = Cardinality(BucketSet(o))
    /\ \A o1, o2 \in 0..MAX_ORDER :
          o1 # o2 => BucketSet(o1) \cap BucketSet(o2) = {}
    /\ Len(LargeList) = Cardinality({LargeList[i] : i \in 1..Len(LargeList)})
    /\ \A i \in 1..Len(LargeList) : LargeList[i] \notin FreeNodes
    /\ \A p \in PooledHeld : (p - S) \notin FreeNodes
    /\ (lastOp.op \in {"smalloc", "scalloc", "srealloc"} /\ ret \in PooledHeld)
          => /\ (ret - S) \notin FreeNodes
             /\ mem[ret - S].next = NULL
             /\ mem[ret - S].prev = NULL

\* smalloc has returned the head of a bucket that held further blocks, while
\* other blocks are held and other buckets are filled
C31_Witness ==
    /\ lastOp.op = "smalloc" /\ ret \in PooledHeld
    /\ Cardinality(PooledHeld) >= 2
    /\ \E o \in 0..(MAX_ORDER - 1) : Len(Bucket(o)) >= 2
    /\ Len(Bucket(MAX_ORDER)) >= 2

\* the smallest order whose block size is at least bytes
SmallestOrder(bytes) == SetMin({o \in 0..MAX_ORDER : MIN_BLOCK * 2^o >= bytes})

\* C32: find_order(bytes) is the smallest o in [0, MAX_ORDER] with
\* 128 << o >= bytes for every bytes in [1, BLOCK_SIZE], and MAX_ORDER for
\* every bytes > BLOCK_SIZE.
C32_FindOrderSmallestFit ==
    lastOp.op = "find_order"
        => /\ (lastOp.n >= 1 /\ lastOp.n <= BLOCK_SIZE)
                 => ret = SmallestOrder(lastOp.n)
           /\ lastOp.n > BLOCK_SIZE => ret = MAX_ORDER

\* find_order has answered a byte count that is exactly the block size of
\* an order between the smallest and the largest
C32_Witness ==
    /\ lastOp.op = "find_order"
    /\ ret \in 1..(MAX_ORDER - 1)
    /\ lastOp.n = MIN_BLOCK * 2^ret

\* the large-block list of memory m from head on
LargeListIn(m, head) == ListSeq(m, head, Cardinality(DOMAIN m))

\* the sequence L without the element a
Without(L, a) == SelectSeq(L, LAMBDA x : x # a)

\* the list from head is doubly linked, ends, and holds exactly the blocks
\* of the held pointers hd, each in a live mapping of mp of its own
LargeListWellFormed(m, head, mp, hd) ==
    LET L == LargeListIn(m, head)
        blocks == {L[i] : i \in 1..Len(L)}
    IN /\ head # NULL => m[head].prev = NULL
       /\ \A i \in 1..(Len(L) - 1) : m[L[i + 1]].prev = L[i]
       /\ Len(L) > 0 => m[L[Len(L)]].next = NULL
       /\ Len(L) = Cardinality(blocks)
       /\ blocks = {p - S : p \in LargePtrs(hd, mp)}
       /\ blocks = DOMAIN mp
       /\ \A a \in blocks : m[a].size > BLOCK_SIZE /\ ~m[a].is_free

\* C33: after every call the large-block list is a well-formed doubly
\* linked list of exactly the large blocks the callers hold, each in one
\* live mapping; an allocation puts its block at the head, in front of the
\* older ones, a release takes out its block alone and unmaps it alone, and
\* a request whose mmap fails leaves the list, the mappings and everything
\* else as they were on entry to the large-block path.
C33_LargeListWellFormed ==
    [][LET p == lastOp'.p
           n == lastOp'.n
           old == LargeList
           new == LargeListIn(mem', mmap_list')
       IN /\ LargeListWellFormed(mem', mmap_list', maps', held')
          /\ (lastOp'.op = "smalloc" /\ n + S > BLOCK_SIZE /\ ret' # NULL)
                => /\ new = <<ret' - S>> \o old
                   /\ (ret' - S) \notin DOMAIN maps
                   /\ DOMAIN maps' = DOMAIN maps \cup {ret' - S}
          /\ (lastOp'.op = "smalloc" /\ n + S > BLOCK_SIZE /\ ret' = NULL)
                => /\ new = old
                   /\ maps' = maps
                   /\ is_initialized => UNCHANGED engine
                   /\ ~is_initialized => (Cur' = Cur \/ Cur' = init(Cur, TRUE))
          /\ (lastOp'.op = "sfree" /\ p \in LargeHeld)
                => /\ new = Without(old, p - S)
                   /\ DOMAIN maps' = DOMAIN maps \ {p - S}
          /\ (lastOp'.op = "srealloc" /\ p \in LargeHeld /\ ret' # NULL /\ ret' # p)
                => /\ new = <<ret' - S>> \o Without(old, p - S)
                   /\ DOMAIN maps' = (DOMAIN maps \ {p - S}) \cup {ret' - S}
          /\ (lastOp'.op = "srealloc" /\ p \in LargeHeld /\ (ret' = NULL \/ ret' = p))
                => new = old /\ maps' = maps]_vars

\* three large blocks are linked and the newest lies between the other two
\* in memory: a block from the middle of the list was released and its
\* address handed out again
C33_Witness ==
    /\ Len(LargeList) = 3
    /\ LargeList[1] < LargeList[2]
    /\ LargeList[1] > LargeList[3]
    /\ lastOp.op \in {"smalloc", "srealloc"}

\* C35: on an initialized engine a pooled smalloc(n) returns null exactly
\* when every bucket from find_order(n + S) to MAX_ORDER is empty, and then
\* leaves free lists, headers and counters as they were; otherwise the
\* block it returns has size - S >= n.
C35_NullIffBucketsEmpty ==
    [][LET n == lastOp'.n
       IN (/\ lastOp'.op = "smalloc"
           /\ is_initialized
           /\ n > 0 /\ n + S <= BLOCK_SIZE)
          => /\ ret' = NULL
                <=> \A o \in find_order(n + S)..MAX_ORDER : free_lists[o] = NULL
             /\ ret' = NULL => UNCHANGED engine
             /\ ret' # NULL => /\ (ret' - S) \in DOMAIN mem'
                               /\ mem'[ret' - S].size - S >= n]_vars

\* a request for a maximum-order block has been refused while smaller
\* buckets held free blocks
C35_Witness ==
    /\ lastOp.op = "smalloc" /\ ret = NULL
    /\ is_initialized
    /\ lastOp.n = BLOCK_SIZE - S
    /\ free_lists[MAX_ORDER] = NULL
    /\ free_lists[MAX_ORDER - 1] # NULL
    /\ free_lists[0] # NULL

\* the pooled blocks: those linked in a bucket and those a caller holds
Pooled == FreeNodes \cup {p - S : p \in PooledHeld}

\* C36: once the engine is initialized the pooled blocks, free and held,
\* tile the 32 * BLOCK_SIZE region: each lies inside it, no two overlap,
\* none is both free and held, and their sizes add up to 32 * BLOCK_SIZE;
\* so no two held payloads overlap.
C36_PooledBlocksTile ==
    is_initialized =>
        /\ \A a \in Pooled : a >= PoolBase /\ a + mem[a].size <= brk
        /\ \A a, b \in Pooled :
              a # b => (a + mem[a].size <= b \/ b + mem[b].size <= a)
        /\ Cardinality(Pooled) = Cardinality(FreeNodes) + Cardinality(PooledHeld)
        /\ SumPayload(mem, Pooled) + S * Cardinality(Pooled)
              = INITIAL_BLOCKS * BLOCK_SIZE
        /\ \A p, q \in PooledHeld :
              p # q => (p - S + mem[p - S].size <= q \/ q - S + mem[q - S].size <= p)

\* three blocks are held, of two different sizes, the last one obtained by
\* srealloc at an address other than the one it was given
C36_Witness ==
    /\ is_initialized
    /\ Cardinality(PooledHeld) = 3
    /\ Cardinality({mem[p - S].size : p \in PooledHeld}) >= 2
    /\ lastOp.op = "srealloc" /\ lastOp.owned
    /\ ret # NULL /\ ret # lastOp.p

\* the list L of memory m is doubly linked from its head to an end
DoublyLinked(m, L) ==
    /\ Len(L) > 0 => m[L[1]].prev = NULL /\ m[L[Len(L)]].next = NULL
    /\ \A i \in 1..(Len(L) - 1) : m[L[i + 1]].prev = L[i]
    /\ Len(L) = Cardinality({L[i] : i \in 1..Len(L)})

RECURSIVE SumLen(_)
\* the number of nodes linked in buckets 0..o
SumLen(o) == IF o < 0 THEN 0 ELSE Len(Bucket(o)) + SumLen(o - 1)

\* C37: between public operations num_free_blocks is the number of nodes
\* linked in the buckets, num_free_bytes the sum of size - S over them,
\* every bucket is an acyclic doubly linked list, and neither counter has
\* gone below zero.
C37_FreeCountersMatchLists ==
    /\ free_blocks = SumLen(MAX_ORDER)
    /\ free_blocks = Cardinality(FreeNodes)
    /\ free_bytes = SumPayload(mem, FreeNodes)
    /\ \A o \in 0..MAX_ORDER : DoublyLinked(mem, Bucket(o))
    /\ free_blocks >= 0 /\ free_bytes >= 0

\* a release has merged its block up to the maximum order and linked it
\* between two nodes of that bucket
C37_Witness ==
    /\ lastOp.op = "sfree" /\ lastOp.owned
    /\ \E i \in 2..(Len(Bucket(MAX_ORDER)) - 1) :
          /\ Bucket(MAX_ORDER)[i] <= lastOp.p - S
          /\ lastOp.p - S < Bucket(MAX_ORDER)[i] + BLOCK_SIZE
    /\ free_blocks = INITIAL_BLOCKS

\* the buckets of state h as sequences of blocks
Table(h) ==
    [o \in 0..MAX_ORDER |-> ListSeq(h.mem, h.free_lists[o], Cardinality(DOMAIN h.mem))]

\* what C39 compares: the free-list table, the size of every linked block
\* and the four counters
Outcome(h) ==
    [table |-> Table(h),
     sizes |-> [a \in FreeNodesIn(h.mem, h.free_lists) |-> h.mem[a].size],
     counters |-> <<h.free_blocks, h.free_bytes, h.allocated_blocks, h.allocated_bytes>>]

\* C39: for any two distinct pooled blocks a and b the callers hold,
\* sfree(a); sfree(b) and sfree(b); sfree(a) leave the same free-list table,
\* the same block sizes and the same counters.
C39_ReleaseCommutes ==
    \A a, b \in PooledHeld :
        a # b => Outcome(sfree(sfree(Cur, a), b)) = Outcome(sfree(sfree(Cur, b), a))

\* the invocation r of remove met its block linked in the bucket of the
\* block's size
Linked(r) ==
    r.ptr \in ListSet(r.mem, r.free_lists[find_order(Hdr(r.mem, r.ptr).size)],
                      Cardinality(DOMAIN r.mem))

\* the buddies that passed the test of a merge loop, in the order of the
\* tests
Approved(h) ==
    LET passed == SelectSeq(h.probed, LAMBDA x : x.ok)
    IN [i \in 1..Len(passed) |-> passed[i].addr]

\* in the call that led to h every remove met a linked block, and the
\* "do merges" loop of srealloc, if it ran, took exactly the buddies the
\* speculative loop had passed
RemovesOK(h) ==
    /\ \A i \in 1..Len(h.removed) : Linked(h.removed[i])
    /\ h.committed # <<>> => h.committed = Approved(h)
    /\ \A i \in 1..Len(h.committed) :
          \E j \in 1..Len(h.removed) : h.removed[j].ptr = h.committed[i]

\* C38: in every call a caller can make next (an sfree or an srealloc of a
\* pointer it holds, an scalloc, an smalloc) every remove(b) meets b linked
\* in bucket find_order(b.size), and the buddies srealloc's commit loop
\* removes are exactly those its speculative loop found free and of the
\* candidate size.
C38_RemoveOnlyLinked ==
    /\ \A p \in held : RemovesOK(sfree(Cur, p))
    /\ \A p \in held, n \in GrowSizes :
          \A env \in Envs(n + S > BLOCK_SIZE) :
              RemovesOK(srealloc(Cur, p, n, env).h)
    /\ \A a \in DataCallocArgs :
          \A env \in Envs(FALSE) : RemovesOK(scalloc(Cur, a[1], a[2], env).h)
    /\ \A env \in Envs(FALSE) : RemovesOK(smalloc(Cur, DataSize, env).h)

\* an sfree has just merged its block into its left buddy, and from here
\* an srealloc grows a held block in place by two merges while an sfree
\* merges as well
C38_Witness ==
    /\ lastOp.op = "sfree" /\ lastOp.owned
    /\ (lastOp.p - S) \notin FreeNodes
    /\ \E p \in held, n \in GrowSizes :
          Len(srealloc(Cur, p, n, NoEnv).h.committed) = 2
    /\ \E p \in held : Len(sfree(Cur, p).removed) >= 1

\* memory holds in h what it holds now at every address of [lo, hi): the
\* same stored bytes and the same headers, whole or in part
SameRegion(h, lo, hi) ==
    /\ \A x \in DOMAIN data \cup DOMAIN h.data :
          (x >= lo /\ x < hi)
              => x \in DOMAIN data /\ x \in DOMAIN h.data /\ h.data[x] = data[x]
    /\ \A a \in DOMAIN mem \cup DOMAIN h.mem :
          (a + S > lo /\ a < hi)
              => a \in DOMAIN mem /\ a \in DOMAIN h.mem /\ h.mem[a] = mem[a]

\* the call that led to h left alone the payload of every block held by a
\* caller other than the block of arg, and the header of every such pooled
\* block
FrameKept(h, arg) ==
    \A q \in held \ {arg} :
        /\ SameRegion(h, q, q + (mem[q - S].size - S))
        /\ q \in PooledHeld => Hdr(h.mem, q - S) = mem[q - S]

\* every buddy header read in the call that led to h and returned taken was
\* the header of a pooled block of that moment: a block a caller holds, the
\* block the call had just taken for itself, or a block linked in the
\* bucket of its size
ProbesReal(h, taken) ==
    \A i \in 1..Len(h.probed) :
        \/ h.probed[i].addr \in {q - S : q \in PooledHeld}
        \/ taken # NULL /\ h.committed = <<>> /\ h.probed[i].addr = taken - S
        \/ /\ h.probed[i].addr \in DOMAIN h.probed[i].mem
           /\ Linked([ptr |-> h.probed[i].addr, mem |-> h.probed[i].mem,
                      free_lists |-> h.probed[i].free_lists])

\* the call on arg that ended as r kept the frame and read real headers
FrameCallOK(r, arg) == FrameKept(r.h, arg) /\ ProbesReal(r.h, r.ret)

\* C34: no call a caller can make next writes into the payload of a held
\* block that is not its argument, nor into the header of such a pooled
\* block, and every buddy header its merge loops read is the header of a
\* real pooled block.
C34_HeldPayloadUntouched ==
    /\ \A p \in held : FrameCallOK([h |-> sfree(Cur, p), ret |-> NULL], p)
    /\ \A p \in held, n \in GrowSizes :
          \A env \in Envs(n + S > BLOCK_SIZE) :
              FrameCallOK(srealloc(Cur, p, n, env), p)
    /\ \A a \in DataCallocArgs :
          \A env \in Envs(FALSE) :
              FrameCallOK(scalloc(Cur, a[1], a[2], env), NULL)
    /\ \A env \in Envs(FALSE) : FrameCallOK(smalloc(Cur, DataSize, env), NULL)

\* held blocks carry the bytes their callers stored, a neighbour has been
\* released, and from here an srealloc moves a payload into a merged block
\* and an sfree reads the header of a held buddy
C34_Witness ==
    /\ Ready
    /\ lastOp.op = "sfree" /\ lastOp.owned
    /\ Cardinality(PooledHeld) >= 2
    /\ \A q \in PooledHeld : NonZero(Cur, q, q + DataSize) # {}
    /\ \E p \in held, n \in GrowSizes :
          /\ srealloc(Cur, p, n, NoEnv).h.committed # <<>>
          /\ srealloc(Cur, p, n, NoEnv).ret < p
    /\ \E p \in held :
          /\ sfree(Cur, p).probed # <<>>
          /\ sfree(Cur, p).probed[1].addr + S \in held

====
